---- MODULE Spec2Model ----
(***************************************************************************)
(* Streaming I/O engine of the UmTRX host driver (umtrx/host/io_impl.cpp): *)
(* the per-channel flow control monitor, the send-buffer path, the receive *)
(* "pirate" loops that turn status frames into acknowledgements or async   *)
(* messages, and the bounded async message fifo.                           *)
(*                                                                         *)
(* seq_type is boost::uint32_t in the source.  The model keeps the modular *)
(* arithmetic but scales the word to SeqBits bits, so that the wrap from   *)
(* the largest value to 0 is reached from a freshly constructed monitor.   *)
(***************************************************************************)
EXTENDS Integers, Sequences, FiniteSets, TLC

(* ------------------------------ bounds -------------------------------- *)
SeqBits == 3            \* width of seq_type in the model (32 in the source)
SeqModulus == 2 ^ SeqBits
MaxSeqsOut == 4         \* flow_control_monitor::_max_seqs_out (window size)
MaxCalls == 10          \* get_curr_seq_out calls recorded per monitor life
MaxAcks == 3            \* flow control updates the hardware sends (SpecMon, SpecTx)
MaxFrames == 2          \* buffers the transports deliver in one run of Spec
ExtraPushes == 2        \* frames sent beyond the fifo depth in SpecFifo
MaxLiveFrames == 2      \* frames the hardware sends in one run of SpecLive
MaxBoards == 2          \* boards of the devices of SpecBind
MaxStreamers == 2       \* streamer objects in existence at one time
MaxSessionSends == 1    \* get_curr_seq_out calls per monitor life in SpecSession
MaxResetSends == 4      \* get_send_buff calls per monitor life in SpecReset
MaxRaceCalls == 5       \* get_curr_seq_out calls, less those in progress, in SpecRace

(* ------------------------- program constants -------------------------- *)
NumTxDsp == 2           \* "assume 2 tx dsp": two tx dsp transports per board
AsyncFifoDepth == 100   \* async_msg_fifo(100 /*messages deep*/)
NumRxDsp == 2           \* rx_dsp_xports[0], rx_dsp_xports[1] per board
RxHdrSize == 24         \* hdr_size of get_rx_stream: 7 words + tlr (4) - cid (8)

\* _mbc.keys(): the motherboards of the device, in registration order
MboardKeys == <<"0">>

\* index into fc_mons / tx_xports / the pirate tasks: io_init pushes the
\* entries of tx dsp 0 and of tx dsp 1 of each motherboard in turn
Chans == 0 .. (Len(MboardKeys) * NumTxDsp - 1)

VARIABLES
    last_seq_out,            \* flow_control_monitor::_last_seq_out, per monitor
    last_seq_ack,            \* flow_control_monitor::_last_seq_ack, per monitor
    send_pc,                 \* position of the transmit thread of each channel
    fc_ret,                  \* value returned by check_fc_condition
    send_buff,               \* buffer returned by io_impl::get_send_buff
    send_log,                \* calls made by the current/last get_send_buff
    seq_log,                 \* values returned by get_curr_seq_out since clear
    last_ack_arg,            \* argument of the last update_fc_condition, -1 if none
    ack_decreased,           \* the last update_fc_condition lowered _last_seq_ack
    pirate_pc,               \* position of each recv_pirate_loop task
    pirate_buff,             \* the loop's local "buff"
    interruption_requested,  \* boost interruption flag of each pirate task
    late_frame,              \* the loop's buff was received after the flag was set
    async_msg_fifo,          \* io_impl::async_msg_fifo
    async_metadata,          \* out-parameter of recv_async_msg
    async_found,             \* value returned by the last recv_async_msg
    push_log,                \* every metadata passed to push_with_pop_on_full
    pushed_buff,             \* has_tsi, has_tsf of the frame the last of them was made from
    pop_pc,                  \* position of the thread calling recv_async_msg
    hw_sent,                 \* status frames sent by the hardware so far
    send_interruption_requested, \* boost interruption flag of each transmit thread
    io_impl_pc,              \* life of the io_impl object: alive, clear, released
    pirate_tasks,            \* io_impl::pirate_tasks, the tasks not yet destroyed
    mbc,                     \* umtrx_impl::_mbc: per board, its channel occupancy
    my_streamer,             \* the streamer made by the last get_rx/tx_stream
    stream_error,            \* what the last get_rx/tx_stream call threw, if anything
    app_streamers,           \* the streamers returned and still held by the application
    rx_streamers,            \* _mbc[mb].rx_streamers[dsp]: weak pointers, by streamer id
    tx_streamers,            \* _mbc[mb].tx_streamers[dsp]: weak pointers, by streamer id
    nsamps_per_packet,       \* value set in _mbc[mb].rx_dsps[dsp] by set_nsamps_per_packet
    upd,                     \* the update_rx/tx_samp_rate call in progress
    if_packet_info,          \* header fields handed to the vrt packer
    vrt_buff,                \* the words the packer wrote
    unpacked_info,           \* header fields the vrt unpacker got out of vrt_buff
    acked_count,             \* per monitor, the acknowledged number counted without wrap
    null_returns,            \* per channel, which null returns of get_send_buff came
                             \* since the last buffer, and between the last two buffers
    send_threads,            \* application threads calling get_send_buff of one
                             \* channel: position, value read from _last_seq_out, buffer
    calls_overlapped         \* per channel, a get_send_buff call has started while
                             \* another thread was inside one

monVars    == <<last_seq_out, last_seq_ack>>
histVars   == <<seq_log, last_ack_arg, ack_decreased>>
txVars     == <<send_pc, fc_ret, send_buff, send_log>>
pirateVars == <<pirate_pc, pirate_buff, interruption_requested, late_frame>>
fifoVars   == <<async_msg_fifo, async_metadata, async_found, push_log,
                pushed_buff, pop_pc>>
sessVars   == <<stream_error, app_streamers, rx_streamers, tx_streamers,
                nsamps_per_packet, upd>>
codecVars  == <<if_packet_info, vrt_buff, unpacked_info>>
raceVars   == <<send_threads, calls_overlapped>>
restVars   == <<send_interruption_requested, io_impl_pc, pirate_tasks, mbc,
                my_streamer, sessVars, codecVars, acked_count, raceVars>>
envVars    == <<restVars, null_returns>>
vars == <<last_seq_out, last_seq_ack, send_pc, fc_ret, send_buff, send_log,
          seq_log, last_ack_arg, ack_decreased, pirate_pc, pirate_buff,
          interruption_requested, late_frame, async_msg_fifo, async_metadata,
          async_found, push_log, pushed_buff, pop_pc, hw_sent,
          send_interruption_requested,
          io_impl_pc, pirate_tasks, mbc, my_streamer, stream_error,
          app_streamers, rx_streamers, tx_streamers, nsamps_per_packet, upd,
          if_packet_info, vrt_buff, unpacked_info, acked_count, null_returns,
          send_threads, calls_overlapped>>

(* ------------------------- flow_control_monitor ----------------------- *)
\* conversion to the unsigned type seq_type
seq_type(x) == x % SeqModulus

\* variant: the window test written with <= instead of <
ready_inclusive(c) == seq_type(last_seq_out[c] - last_seq_ack[c]) <= MaxSeqsOut

\* variant: the difference is compared without the cast to seq_type
ready_no_cast(c) == last_seq_out[c] - last_seq_ack[c] < MaxSeqsOut

\* bool ready(void): seq_type(_last_seq_out - _last_seq_ack) < _max_seqs_out
ready(c) == seq_type(last_seq_out[c] - last_seq_ack[c]) < MaxSeqsOut

\* variant: clear that resets only _last_seq_out
clear_seq_out_only(c) ==
    /\ last_seq_out' = [last_seq_out EXCEPT ![c] = 0]
    /\ seq_log' = [seq_log EXCEPT ![c] = <<>>]
    /\ last_ack_arg' = [last_ack_arg EXCEPT ![c] = -1]
    /\ ack_decreased' = [ack_decreased EXCEPT ![c] = FALSE]
    /\ UNCHANGED last_seq_ack

\* void clear(void)
clear(c) ==
    /\ last_seq_out' = [last_seq_out EXCEPT ![c] = 0]
    /\ last_seq_ack' = [last_seq_ack EXCEPT ![c] = 0]
    /\ seq_log' = [seq_log EXCEPT ![c] = <<>>]
    /\ last_ack_arg' = [last_ack_arg EXCEPT ![c] = -1]
    /\ ack_decreased' = [ack_decreased EXCEPT ![c] = FALSE]

\* variant: pre-increment, return ++_last_seq_out
get_curr_seq_out_preincrement(c) ==
    /\ last_seq_out' = [last_seq_out EXCEPT ![c] = seq_type(@ + 1)]
    /\ seq_log' = [seq_log EXCEPT ![c] = Append(@, seq_type(last_seq_out[c] + 1))]
    /\ UNCHANGED <<last_seq_ack, last_ack_arg, ack_decreased>>

\* seq_type get_curr_seq_out(void): return _last_seq_out++
\* (seq_log records the value returned)
get_curr_seq_out(c) ==
    /\ last_seq_out' = [last_seq_out EXCEPT ![c] = seq_type(@ + 1)]
    /\ seq_log' = [seq_log EXCEPT ![c] = Append(@, last_seq_out[c])]
    /\ UNCHANGED <<last_seq_ack, last_ack_arg, ack_decreased>>

\* variant: a monotonic guard, _last_seq_ack = max(_last_seq_ack, seq)
update_fc_condition_max(c, seq) ==
    /\ last_seq_ack' = [last_seq_ack EXCEPT ![c] = IF seq > @ THEN seq ELSE @]
    /\ last_ack_arg' = [last_ack_arg EXCEPT ![c] = seq]
    /\ ack_decreased' = [ack_decreased EXCEPT ![c] = seq < last_seq_ack[c]]
    /\ UNCHANGED <<last_seq_out, seq_log>>

\* update_fc_condition, the part under _fc_mutex: _last_seq_ack = seq
\* (last_ack_arg records the argument, ack_decreased whether it is below the
\* value it replaces)
update_fc_condition(c, seq) ==
    /\ last_seq_ack' = [last_seq_ack EXCEPT ![c] = seq]
    /\ last_ack_arg' = [last_ack_arg EXCEPT ![c] = seq]
    /\ ack_decreased' = [ack_decreased EXCEPT ![c] = seq < last_seq_ack[c]]
    /\ UNCHANGED <<last_seq_out, seq_log>>

\* variant: the notification is dropped
notify_one_dropped(c) == UNCHANGED send_pc

\* update_fc_condition, after the unlock: _fc_cond.notify_one() wakes the
\* thread blocked in timed_wait on this monitor, if there is one
notify_one(c) ==
    send_pc' = [send_pc EXCEPT ![c] = IF @ = "wait" THEN "woken" ELSE @]

\* return from check_fc_condition with value b
fc_return(c, b) ==
    /\ send_pc' = [send_pc EXCEPT ![c] = "checked"]
    /\ fc_ret' = [fc_ret EXCEPT ![c] = IF b THEN "ready" ELSE "timeout"]

\* check_fc_condition up to the wait: lock, "if (this->ready()) return true",
\* otherwise timed_wait releases the mutex and blocks
check_fc_condition(c) ==
    /\ send_pc[c] = "idle"
    /\ IF ready(c)
       THEN fc_return(c, TRUE)
       ELSE /\ send_pc' = [send_pc EXCEPT ![c] = "wait"]
            /\ fc_ret' = [fc_ret EXCEPT ![c] = "none"]

\* variant: a woken waiter returns true without evaluating the predicate
fc_wait_woken_no_recheck(c) ==
    /\ send_pc[c] = "woken"
    /\ fc_return(c, TRUE)

\* timed_wait(lock, duration, pred): a woken waiter re-acquires the mutex and
\* evaluates the predicate again; it goes back to waiting when it is false
fc_wait_woken(c) ==
    /\ send_pc[c] = "woken"
    /\ IF ready(c)
       THEN fc_return(c, TRUE)
       ELSE /\ send_pc' = [send_pc EXCEPT ![c] = "wait"]
            /\ UNCHANGED fc_ret

\* variant: a wait that times out returns false without evaluating the
\* predicate
fc_wait_timeout_false(c) ==
    /\ send_pc[c] \in {"wait", "woken"}
    /\ fc_return(c, FALSE)

\* variant: wait(lock, pred) without a timeout, which returns only once the
\* predicate holds
fc_wait_untimed(c) ==
    /\ send_pc[c] \in {"wait", "woken"}
    /\ ready(c)
    /\ fc_return(c, TRUE)

\* timed_wait: the timeout elapses; the wait returns the predicate's value
fc_wait_timeout(c) ==
    /\ send_pc[c] \in {"wait", "woken"}
    /\ fc_return(c, ready(c))

\* a condition variable may wake its waiter without a notify
fc_wait_spurious(c) ==
    /\ send_pc[c] = "wait"
    /\ send_pc' = [send_pc EXCEPT ![c] = "woken"]

(* ------------------------------ byte order ---------------------------- *)
\* A 32-bit word as it lies in a buffer is a tuple of SeqBits binary digits,
\* most significant first (network order).
WireWords == [1 .. SeqBits -> {0, 1}]

\* variant: no byte swap, the word is stored least significant digit first
htonx_host_order(x) == [k \in 1 .. SeqBits |-> (x \div (2 ^ (k - 1))) % 2]

\* uhd::htonx: host value to network order
htonx(x) == [k \in 1 .. SeqBits |-> (x \div (2 ^ (SeqBits - k))) % 2]

RECURSIVE be_value(_, _)
be_value(w, k) == IF k = 0 THEN 0 ELSE 2 * be_value(w, k - 1) + w[k]

\* uhd::ntohx: network order to host value
ntohx(w) == be_value(w, SeqBits)

(* --------------------------- the vrt header --------------------------- *)
\* vrt::if_packet_info_t as far as the engine uses it: the flow control
\* sequence word in front of the header, packet type, stream id, the two
\* optional time stamp fields and the trailer.  A field that is absent is 0.
NoPacketInfo ==
    [seq |-> 0, packet_type |-> "PACKET_TYPE_DATA",
     sid |-> "USRP2_RX_SID_BASE+0", has_tsi |-> FALSE, tsi |-> 0,
     has_tsf |-> FALSE, tsf |-> 0, tlr |-> 0]

\* no buffer has been packed
NoVrtBuff ==
    [null |-> TRUE, seq_word |-> htonx(0), packet_type |-> "PACKET_TYPE_DATA",
     has_tsi |-> FALSE, has_tsf |-> FALSE, num_header_words32 |-> 0,
     sid |-> "USRP2_RX_SID_BASE+0", words |-> <<>>]

\* the words that follow the stream id: tsi if present, tsf if present, and
\* the trailer, each in network order; no class id
time_and_trailer_words(info) ==
    (IF info.has_tsi THEN <<htonx(info.tsi)>> ELSE <<>>)
        \o (IF info.has_tsf THEN <<htonx(info.tsf)>> ELSE <<>>)
        \o <<htonx(info.tlr)>>

\* vrt::if_hdr_pack_be behind vrt_send_header_offset_words32 = 1 word, which
\* get_send_buff fills with htonx(sequence number): the first header word
\* carries the packet type, the time stamp flags and the header word count
if_hdr_pack_be(info) ==
    [null |-> FALSE, seq_word |-> htonx(info.seq),
     packet_type |-> info.packet_type,
     has_tsi |-> info.has_tsi, has_tsf |-> info.has_tsf,
     num_header_words32 |->
         2 + (IF info.has_tsi THEN 1 ELSE 0) + (IF info.has_tsf THEN 1 ELSE 0),
     sid |-> info.sid,
     words |-> time_and_trailer_words(info)]

\* the header word count the flags of a buffer call for
declared_words32(buff) ==
    2 + (IF buff.has_tsi THEN 1 ELSE 0) + (IF buff.has_tsf THEN 1 ELSE 0)

\* the unpacker rejects a buffer whose header word count does not fit its
\* flags or that ends before the trailer
well_formed(buff) ==
    /\ ~buff.null
    /\ buff.num_header_words32 = declared_words32(buff)
    /\ Len(buff.words) = buff.num_header_words32 - 1

\* vrt::if_hdr_unpack_be, and uhd::ntohx of the sequence word: the fields are
\* read back in the order they were written
if_hdr_unpack_be(buff) ==
    LET k_tsf   == IF buff.has_tsi THEN 2 ELSE 1
        k_tlr   == buff.num_header_words32 - 1
    IN  [seq |-> ntohx(buff.seq_word), packet_type |-> buff.packet_type,
         sid |-> buff.sid,
         has_tsi |-> buff.has_tsi,
         tsi |-> IF buff.has_tsi THEN ntohx(buff.words[1]) ELSE 0,
         has_tsf |-> buff.has_tsf,
         tsf |-> IF buff.has_tsf THEN ntohx(buff.words[k_tsf]) ELSE 0,
         tlr |-> ntohx(buff.words[k_tlr])]

\* what the codec steps leave alone
codecFrame ==
    UNCHANGED <<monVars, histVars, txVars, pirateVars, fifoVars, hw_sent,
                send_interruption_requested, io_impl_pc, pirate_tasks, mbc,
                my_streamer, sessVars, acked_count, null_returns, raceVars>>

\* a header is packed into a buffer
VrtPack(info) ==
    /\ if_packet_info' = info
    /\ vrt_buff' = if_hdr_pack_be(info)
    /\ unpacked_info' = NoPacketInfo
    /\ codecFrame

\* the buffer is unpacked at the other end
VrtUnpack ==
    /\ well_formed(vrt_buff)
    /\ unpacked_info' = if_hdr_unpack_be(vrt_buff)
    /\ UNCHANGED <<if_packet_info, vrt_buff>>
    /\ codecFrame

(* ------------------------------- buffers ------------------------------ *)
\* managed_send_buffer::sptr: null, or a buffer whose word 0 has been written
NullSendBuff == [null |-> TRUE, word0 |-> htonx(0)]

\* stream ids a status frame can carry: the two tx async ids accepted by the
\* loop, and one other id
TxAsyncSids == {"USRP2_TX_ASYNC_SID_BASE+0", "USRP2_TX_ASYNC_SID_BASE+1"}
Sids == TxAsyncSids \cup {"USRP2_RX_SID_BASE+0"}
PacketTypes == {"PACKET_TYPE_DATA", "PACKET_TYPE_CONTEXT"}

\* context codes: 0 is the flow control update, 2 is EVENT_CODE_UNDERFLOW
ContextCodes == {0, 2}

\* managed_recv_buffer::sptr as the loop sees it: null, or a frame with the
\* fields vrt::if_hdr_unpack_be extracts (valid = the unpack does not throw),
\* the context code, and the word after it.  fc_word32 is what the memory at
\* (vrt_hdr + num_header_words32)[1] holds, inside the frame or not.
NullRecvBuff ==
    [null |-> TRUE, valid |-> FALSE, sid |-> "USRP2_RX_SID_BASE+0",
     packet_type |-> "PACKET_TYPE_DATA", has_tsi |-> FALSE, has_tsf |-> FALSE,
     tsi |-> 0, num_payload_words32 |-> 0, context_code |-> 0,
     fc_word32 |-> htonx(0)]

MalformedBuff == [NullRecvBuff EXCEPT !.null = FALSE]

Frame(sid, ptype, has_tsi, has_tsf, tsi, code, word) ==
    [null |-> FALSE, valid |-> TRUE, sid |-> sid, packet_type |-> ptype,
     has_tsi |-> has_tsi, has_tsf |-> has_tsf, tsi |-> tsi,
     num_payload_words32 |-> 2, context_code |-> code, fc_word32 |-> word]

\* a well-formed frame whose payload is the context word alone: the frame
\* ends before the word the flow control branch reads, and "after" is
\* whatever the receive buffer holds behind the frame
ShortFrame(sid, ptype, tsi, code, after) ==
    [Frame(sid, ptype, TRUE, TRUE, tsi, code, after)
        EXCEPT !.num_payload_words32 = 1]

\* variant: every message is reported on channel 0
Metadata_channel_zero(i, b) ==
    [channel |-> 0, has_time_spec |-> (b.has_tsi /\ b.has_tsf),
     time_spec |-> b.tsi, event_code |-> b.context_code]

\* variant: has_time_spec = has_tsi or has_tsf
Metadata_either_stamp(i, b) ==
    [channel |-> i, has_time_spec |-> (b.has_tsi \/ b.has_tsf),
     time_spec |-> b.tsi, event_code |-> b.context_code]

\* async_metadata_t as filled in by the loop
Metadata(i, b) ==
    [channel |-> i, has_time_spec |-> (b.has_tsi /\ b.has_tsf),
     time_spec |-> b.tsi, event_code |-> b.context_code]

NoMetadata ==
    [channel |-> 0, has_time_spec |-> FALSE, time_spec |-> 0, event_code |-> 0]

(* --------------------- bounded_buffer<async_metadata_t> --------------- *)
\* push_with_pop_on_full: if the buffer is full, pop the oldest element, then
\* push the new one at the back
push_with_pop_on_full(q, elem) ==
    IF Len(q) >= AsyncFifoDepth THEN Append(Tail(q), elem) ELSE Append(q, elem)

(* -------------------------- recv_pirate_loop -------------------------- *)
\* variant: the fifo grows without bound
push_async_msg_unbounded(q, metadata) == Append(q, metadata)

\* variant: push_with_haste, which gives up on a full fifo and so discards
\* the newest message
push_async_msg_with_haste(q, metadata) ==
    IF Len(q) >= AsyncFifoDepth THEN q ELSE Append(q, metadata)

\* async_msg_fifo.push_with_pop_on_full(metadata)
push_async_msg(q, metadata) == push_with_pop_on_full(q, metadata)

\* variant: the loop condition is "while (true)"
PirateLoopTop_forever(i) ==
    /\ pirate_pc[i] = "top"
    /\ pirate_pc' = [pirate_pc EXCEPT ![i] = "recv"]
    /\ UNCHANGED <<monVars, histVars, txVars, pirate_buff,
                   interruption_requested, late_frame, fifoVars, hw_sent>>
    /\ UNCHANGED envVars

\* while (not boost::this_thread::interruption_requested())
PirateLoopTop(i) ==
    /\ pirate_pc[i] = "top"
    /\ pirate_pc' = [pirate_pc EXCEPT ![i] =
                        IF interruption_requested[i] THEN "done" ELSE "recv"]
    /\ UNCHANGED <<monVars, histVars, txVars, pirate_buff,
                   interruption_requested, late_frame, fifoVars, hw_sent>>
    /\ UNCHANGED envVars

\* buff = err_xport->get_recv_buff(); if (not buff.get()) continue;
get_recv_buff(i, buff) ==
    /\ pirate_pc[i] = "recv"
    /\ pirate_pc' = [pirate_pc EXCEPT ![i] = IF buff.null THEN "top" ELSE "process"]
    /\ pirate_buff' = [pirate_buff EXCEPT ![i] = buff]
    /\ late_frame' = [late_frame EXCEPT ![i] =
                         ~buff.null /\ interruption_requested[i]]
    /\ hw_sent' = IF buff.null THEN hw_sent ELSE hw_sent + 1
    /\ UNCHANGED <<monVars, histVars, txVars, interruption_requested, fifoVars>>
    /\ UNCHANGED envVars

\* variant: the flow control branch lacks its "continue" and falls through to
\* the push
PirateProcess_no_continue(i) ==
    /\ pirate_pc[i] = "process"
    /\ pirate_buff' = [pirate_buff EXCEPT ![i] = NullRecvBuff]
    /\ late_frame' = [late_frame EXCEPT ![i] = FALSE]
    /\ LET b == pirate_buff[i]
           metadata == Metadata(i, b)
       IN  IF b.valid /\ b.sid \in TxAsyncSids
                      /\ b.packet_type # "PACKET_TYPE_DATA"
           THEN /\ IF metadata.event_code = 0
                   THEN /\ update_fc_condition(i, ntohx(b.fc_word32))
                        /\ pirate_pc' = [pirate_pc EXCEPT ![i] = "notify"]
                   ELSE /\ pirate_pc' = [pirate_pc EXCEPT ![i] = "top"]
                        /\ UNCHANGED <<monVars, histVars>>
                /\ async_msg_fifo' = push_async_msg(async_msg_fifo, metadata)
                /\ push_log' = Append(push_log, metadata)
                /\ pushed_buff' = [has_tsi |-> b.has_tsi, has_tsf |-> b.has_tsf]
           ELSE /\ pirate_pc' = [pirate_pc EXCEPT ![i] = "top"]
                /\ UNCHANGED <<monVars, histVars, async_msg_fifo, push_log, pushed_buff>>
    /\ UNCHANGED <<txVars, interruption_requested, async_metadata, async_found,
                   pop_pc, hw_sent>>
    /\ UNCHANGED envVars

\* variant: an exception of the unpacker is not caught and ends the loop
PirateProcess_uncaught(i) ==
    /\ pirate_pc[i] = "process"
    /\ pirate_buff' = [pirate_buff EXCEPT ![i] = NullRecvBuff]
    /\ late_frame' = [late_frame EXCEPT ![i] = FALSE]
    /\ LET b == pirate_buff[i]
           metadata == Metadata(i, b)
       IN  IF b.valid /\ b.sid \in TxAsyncSids
                      /\ b.packet_type # "PACKET_TYPE_DATA"
           THEN IF metadata.event_code = 0
                THEN /\ update_fc_condition(i, ntohx(b.fc_word32))
                     /\ pirate_pc' = [pirate_pc EXCEPT ![i] = "notify"]
                     /\ UNCHANGED <<async_msg_fifo, push_log, pushed_buff>>
                ELSE /\ async_msg_fifo' = push_async_msg(async_msg_fifo, metadata)
                     /\ push_log' = Append(push_log, metadata)
                     /\ pushed_buff' = [has_tsi |-> b.has_tsi, has_tsf |-> b.has_tsf]
                     /\ pirate_pc' = [pirate_pc EXCEPT ![i] = "top"]
                     /\ UNCHANGED <<monVars, histVars>>
           ELSE /\ pirate_pc' = [pirate_pc EXCEPT ![i] =
                                    IF b.valid THEN "top" ELSE "done"]
                /\ UNCHANGED <<monVars, histVars, async_msg_fifo, push_log, pushed_buff>>
    /\ UNCHANGED <<txVars, interruption_requested, async_metadata, async_found,
                   pop_pc, hw_sent>>
    /\ UNCHANGED envVars

\* variant: the packet type is not tested
PirateProcess_any_type(i) ==
    /\ pirate_pc[i] = "process"
    /\ pirate_buff' = [pirate_buff EXCEPT ![i] = NullRecvBuff]
    /\ late_frame' = [late_frame EXCEPT ![i] = FALSE]
    /\ LET b == pirate_buff[i]
           metadata == Metadata(i, b)
       IN  IF b.valid /\ b.sid \in TxAsyncSids
           THEN IF metadata.event_code = 0
                THEN /\ update_fc_condition(i, ntohx(b.fc_word32))
                     /\ pirate_pc' = [pirate_pc EXCEPT ![i] = "notify"]
                     /\ UNCHANGED <<async_msg_fifo, push_log, pushed_buff>>
                ELSE /\ async_msg_fifo' = push_async_msg(async_msg_fifo, metadata)
                     /\ push_log' = Append(push_log, metadata)
                     /\ pushed_buff' = [has_tsi |-> b.has_tsi, has_tsf |-> b.has_tsf]
                     /\ pirate_pc' = [pirate_pc EXCEPT ![i] = "top"]
                     /\ UNCHANGED <<monVars, histVars>>
           ELSE /\ pirate_pc' = [pirate_pc EXCEPT ![i] = "top"]
                /\ UNCHANGED <<monVars, histVars, async_msg_fifo, push_log, pushed_buff>>
    /\ UNCHANGED <<txVars, interruption_requested, async_metadata, async_found,
                   pop_pc, hw_sent>>
    /\ UNCHANGED envVars

\* the try block: unpack the header, then either update the flow control
\* monitor, push an async message, or drop the frame.  The buffer is not used
\* after this step.
PirateProcess(i) ==
    /\ pirate_pc[i] = "process"
    /\ pirate_buff' = [pirate_buff EXCEPT ![i] = NullRecvBuff]
    /\ late_frame' = [late_frame EXCEPT ![i] = FALSE]
    /\ LET b == pirate_buff[i]
           metadata == Metadata(i, b)
       IN  IF b.valid /\ b.sid \in TxAsyncSids
                      /\ b.packet_type # "PACKET_TYPE_DATA"
           THEN IF metadata.event_code = 0
                THEN /\ update_fc_condition(i, ntohx(b.fc_word32))
                     /\ pirate_pc' = [pirate_pc EXCEPT ![i] = "notify"]
                     /\ UNCHANGED <<async_msg_fifo, push_log, pushed_buff>>
                ELSE /\ async_msg_fifo' = push_async_msg(async_msg_fifo, metadata)
                     /\ push_log' = Append(push_log, metadata)
                     /\ pushed_buff' = [has_tsi |-> b.has_tsi, has_tsf |-> b.has_tsf]
                     /\ pirate_pc' = [pirate_pc EXCEPT ![i] = "top"]
                     /\ UNCHANGED <<monVars, histVars>>
           ELSE /\ pirate_pc' = [pirate_pc EXCEPT ![i] = "top"]
                /\ UNCHANGED <<monVars, histVars, async_msg_fifo, push_log, pushed_buff>>
    /\ UNCHANGED <<txVars, interruption_requested, async_metadata, async_found,
                   pop_pc, hw_sent>>
    /\ UNCHANGED envVars

\* the end of update_fc_condition: lock.unlock(); _fc_cond.notify_one(); continue
PirateNotify(i) ==
    /\ pirate_pc[i] = "notify"
    /\ notify_one(i)
    /\ pirate_pc' = [pirate_pc EXCEPT ![i] = "top"]
    /\ UNCHANGED <<monVars, histVars, fc_ret, send_buff, send_log, pirate_buff,
                   interruption_requested, late_frame, fifoVars, hw_sent>>
    /\ UNCHANGED envVars

(* --------------------------- recv_async_msg --------------------------- *)
\* variant: the newest message is taken
pop_back(q) ==
    /\ async_metadata' = q[Len(q)]
    /\ async_msg_fifo' = SubSeq(q, 1, Len(q) - 1)
    /\ async_found' = TRUE

\* async_msg_fifo.pop_with_timed_wait: take the oldest message out of q
pop_front(q) ==
    /\ async_metadata' = Head(q)
    /\ async_msg_fifo' = Tail(q)
    /\ async_found' = TRUE

\* the call: with a message in the fifo, pop it and return true at once;
\* with an empty fifo, block in the timed wait
recv_async_msg ==
    /\ pop_pc = "idle"
    /\ IF async_msg_fifo # <<>>
       THEN /\ pop_front(async_msg_fifo)
            /\ UNCHANGED pop_pc
       ELSE /\ pop_pc' = "wait"
            /\ UNCHANGED <<async_msg_fifo, async_metadata, async_found>>
    /\ UNCHANGED <<monVars, histVars, txVars, pirateVars, push_log, pushed_buff,
                   hw_sent>>
    /\ UNCHANGED envVars

\* variant: the wait has no timeout and ends only when a message is there
RecvAsyncReturn_no_timeout ==
    /\ pop_pc = "wait"
    /\ async_msg_fifo # <<>>
    /\ pop_pc' = "idle"
    /\ pop_front(async_msg_fifo)
    /\ UNCHANGED <<monVars, histVars, txVars, pirateVars, push_log, pushed_buff,
                   hw_sent>>
    /\ UNCHANGED envVars

\* the timed wait ends, woken by a push or by the timeout: with a message in
\* the fifo the call pops it and returns true, otherwise it returns false and
\* leaves async_metadata alone
RecvAsyncReturn ==
    /\ pop_pc = "wait"
    /\ pop_pc' = "idle"
    /\ IF async_msg_fifo # <<>>
       THEN pop_front(async_msg_fifo)
       ELSE /\ async_found' = FALSE
            /\ UNCHANGED <<async_msg_fifo, async_metadata>>
    /\ UNCHANGED <<monVars, histVars, txVars, pirateVars, push_log, pushed_buff,
                   hw_sent>>
    /\ UNCHANGED envVars

(* ----------------- timed_wait inside check_fc_condition --------------- *)
WaitWoken(c) ==
    /\ fc_wait_woken(c)
    /\ UNCHANGED <<monVars, histVars, send_buff, send_log, pirateVars, fifoVars,
                   hw_sent>>
    /\ UNCHANGED envVars

WaitTimeout(c) ==
    /\ fc_wait_timeout(c)
    /\ UNCHANGED <<monVars, histVars, send_buff, send_log, pirateVars, fifoVars,
                   hw_sent>>
    /\ UNCHANGED envVars

WaitSpurious(c) ==
    /\ fc_wait_spurious(c)
    /\ UNCHANGED <<monVars, histVars, fc_ret, send_buff, send_log, pirateVars,
                   fifoVars, hw_sent>>
    /\ UNCHANGED envVars

(* ------------------------ io_impl::get_send_buff ---------------------- *)
\* no call on the channel has returned null
NoNullReturns == [pending |-> {}, between |-> {}]

\* get_send_buff returns null on channel c, for the reason given
returns_null(c, why) ==
    null_returns' = [null_returns EXCEPT ![c].pending = @ \cup {why}]

\* get_send_buff returns a buffer on channel c
returns_buff(c) ==
    null_returns' = [null_returns EXCEPT
                        ![c] = [pending |-> {}, between |-> @.pending]]

\* entry: fc_mon.check_fc_condition(timeout)
GetSendBuffCheck(c) ==
    /\ Len(seq_log[c]) < MaxCalls
    /\ check_fc_condition(c)
    /\ send_buff' = [send_buff EXCEPT ![c] = NullSendBuff]
    /\ send_log' = [send_log EXCEPT ![c] = <<>>]
    /\ UNCHANGED <<monVars, histVars, pirateVars, fifoVars, hw_sent>>
    /\ UNCHANGED envVars

\* variant: the sequence number is taken before the transport is asked, so a
\* null buffer from the transport still consumes one
GetSendBuffXport_seq_first(c) ==
    /\ send_pc[c] = "checked"
    /\ fc_ret' = [fc_ret EXCEPT ![c] = "none"]
    /\ IF fc_ret[c] = "timeout"
       THEN /\ send_pc' = [send_pc EXCEPT ![c] = "idle"]
            /\ send_log' = [send_log EXCEPT ![c] = <<"check_fc_condition=false">>]
            /\ returns_null(c, "flow control")
            /\ UNCHANGED <<monVars, histVars, send_buff>>
       ELSE /\ get_curr_seq_out(c)
            /\ \E got \in BOOLEAN :
                /\ send_pc' = [send_pc EXCEPT ![c] = "idle"]
                /\ IF got THEN returns_buff(c) ELSE returns_null(c, "transport")
                /\ send_log' = [send_log EXCEPT ![c] =
                       <<"check_fc_condition=true", "get_curr_seq_out",
                         IF got THEN "tx_xport=buff" ELSE "tx_xport=null">>]
                /\ send_buff' = [send_buff EXCEPT ![c] =
                       IF got THEN [null |-> FALSE, word0 |-> htonx(last_seq_out[c])]
                              ELSE NullSendBuff]
    /\ UNCHANGED <<pirateVars, fifoVars, hw_sent>>
    /\ UNCHANGED restVars

\* "if (not ...) return managed_send_buffer::sptr();" and otherwise
\* "buff = tx_xports[chan]->get_send_buff(timeout)", which yields a buffer or
\* null; a null buff is returned as it is
GetSendBuffXport(c) ==
    /\ send_pc[c] = "checked"
    /\ fc_ret' = [fc_ret EXCEPT ![c] = "none"]
    /\ IF fc_ret[c] = "timeout"
       THEN /\ send_pc' = [send_pc EXCEPT ![c] = "idle"]
            /\ send_log' = [send_log EXCEPT ![c] = <<"check_fc_condition=false">>]
            /\ returns_null(c, "flow control")
       ELSE \E got \in BOOLEAN :
            /\ send_pc' = [send_pc EXCEPT ![c] = IF got THEN "seq" ELSE "idle"]
            /\ IF got THEN UNCHANGED null_returns
                      ELSE returns_null(c, "transport")
            /\ send_log' = [send_log EXCEPT ![c] =
                   <<"check_fc_condition=true",
                     IF got THEN "tx_xport=buff" ELSE "tx_xport=null">>]
    /\ UNCHANGED <<monVars, histVars, send_buff, pirateVars, fifoVars, hw_sent>>
    /\ UNCHANGED restVars

\* buff->cast<uint32_t *>()[0] = uhd::htonx(fc_mon.get_curr_seq_out()); return buff
GetSendBuffSeq(c) ==
    /\ send_pc[c] = "seq"
    /\ get_curr_seq_out(c)
    /\ send_buff' = [send_buff EXCEPT ![c] =
                        [null |-> FALSE, word0 |-> htonx(last_seq_out[c])]]
    /\ send_log' = [send_log EXCEPT ![c] = Append(@, "get_curr_seq_out")]
    /\ send_pc' = [send_pc EXCEPT ![c] = "idle"]
    /\ returns_buff(c)
    /\ UNCHANGED <<fc_ret, pirateVars, fifoVars, hw_sent>>
    /\ UNCHANGED restVars

(* ------- get_send_buff of one channel entered by several threads ------ *)
\* the application threads that send on the channel
SendThreads == {1, 2}

\* a thread outside get_send_buff that has not been given a buffer
NoSendThread == [pc |-> "idle", seq |-> 0, buff |-> NullSendBuff]

\* what a step of a sending thread leaves alone
threadFrame ==
    UNCHANGED <<txVars, pirateVars, fifoVars, hw_sent,
                send_interruption_requested, io_impl_pc, pirate_tasks, mbc,
                my_streamer, sessVars, codecVars, acked_count, null_returns>>

\* variant: the window test of the entry is ready_inclusive
ThreadCheck_inclusive(t, c) ==
    /\ send_threads[t].pc = "idle"
    /\ Len(seq_log[c]) < MaxRaceCalls
    /\ send_threads' =
           [send_threads EXCEPT
               ![t].pc = IF ready_inclusive(c) THEN "xport" ELSE "wait",
               ![t].buff = NullSendBuff]
    /\ calls_overlapped' =
           [calls_overlapped EXCEPT
               ![c] = @ \/ \E u \in SendThreads \ {t} :
                               send_threads[u].pc # "idle"]
    /\ UNCHANGED <<monVars, histVars>>
    /\ threadFrame

\* thread t enters get_send_buff and check_fc_condition: with _fc_mutex
\* held, "if (this->ready()) return true", otherwise timed_wait
ThreadCheck(t, c) ==
    /\ send_threads[t].pc = "idle"
    /\ Len(seq_log[c]) < MaxRaceCalls
    /\ send_threads' =
           [send_threads EXCEPT
               ![t].pc = IF ready(c) THEN "xport" ELSE "wait",
               ![t].buff = NullSendBuff]
    /\ calls_overlapped' =
           [calls_overlapped EXCEPT
               ![c] = @ \/ \E u \in SendThreads \ {t} :
                               send_threads[u].pc # "idle"]
    /\ UNCHANGED <<monVars, histVars>>
    /\ threadFrame

\* timed_wait returns to thread t, with the mutex held again: true as soon as
\* the predicate holds, false at the timeout, and get_send_buff then returns
\* a null buffer
ThreadWaitReturn(t, c) ==
    /\ send_threads[t].pc = "wait"
    /\ send_threads' =
           [send_threads EXCEPT ![t].pc = IF ready(c) THEN "xport" ELSE "idle"]
    /\ UNCHANGED <<monVars, histVars, calls_overlapped>>
    /\ threadFrame

\* tx_xports[chan]->get_send_buff(timeout) gives thread t a buffer or null
ThreadXport(t, c, got) ==
    /\ send_threads[t].pc = "xport"
    /\ send_threads' =
           [send_threads EXCEPT ![t].pc = IF got THEN "read" ELSE "idle"]
    /\ UNCHANGED <<monVars, histVars, calls_overlapped>>
    /\ threadFrame

\* get_curr_seq_out in thread t, no mutex held: _last_seq_out is loaded ...
ThreadSeqRead(t, c) ==
    /\ send_threads[t].pc = "read"
    /\ send_threads' =
           [send_threads EXCEPT ![t].pc = "write", ![t].seq = last_seq_out[c]]
    /\ UNCHANGED <<monVars, histVars, calls_overlapped>>
    /\ threadFrame

\* ... and the value plus one stored; the value loaded is returned and
\* written into word 0 of the buffer, which get_send_buff returns
ThreadSeqWrite(t, c) ==
    /\ send_threads[t].pc = "write"
    /\ last_seq_out' =
           [last_seq_out EXCEPT ![c] = seq_type(send_threads[t].seq + 1)]
    /\ seq_log' = [seq_log EXCEPT ![c] = Append(@, send_threads[t].seq)]
    /\ send_threads' =
           [send_threads EXCEPT
               ![t].pc = "idle",
               ![t].buff = [null |-> FALSE,
                            word0 |-> htonx(send_threads[t].seq)]]
    /\ UNCHANGED <<last_seq_ack, last_ack_arg, ack_decreased,
                   calls_overlapped>>
    /\ threadFrame

(* ---------- the monitor's operations called one at a time ------------- *)
\* another thread calls interrupt() on the transmit thread while it is
\* blocked in check_fc_condition.  The wait runs under disable_interruption,
\* so the request only sets the flag.
interrupt_sender(c) ==
    /\ send_pc[c] \in {"wait", "woken"}
    /\ ~send_interruption_requested[c]
    /\ send_interruption_requested' =
           [send_interruption_requested EXCEPT ![c] = TRUE]
    /\ UNCHANGED <<monVars, histVars, txVars, pirateVars, fifoVars, hw_sent,
                   io_impl_pc, pirate_tasks, mbc, my_streamer, sessVars,
                   codecVars, acked_count, null_returns, raceVars>>

MonNextSequence(c) ==
    /\ send_pc[c] = "idle"
    /\ Len(seq_log[c]) < MaxCalls
    /\ get_curr_seq_out(c)
    /\ UNCHANGED <<txVars, pirateVars, fifoVars, hw_sent>>
    /\ UNCHANGED envVars

MonWaitReady(c) ==
    /\ check_fc_condition(c)
    /\ UNCHANGED <<monVars, histVars, send_buff, send_log, pirateVars, fifoVars,
                   hw_sent>>
    /\ UNCHANGED envVars

MonWaitReturn(c) ==
    /\ send_pc[c] = "checked"
    /\ send_pc' = [send_pc EXCEPT ![c] = "idle"]
    /\ fc_ret' = [fc_ret EXCEPT ![c] = "none"]
    /\ UNCHANGED <<monVars, histVars, send_buff, send_log, pirateVars, fifoVars,
                   hw_sent>>
    /\ UNCHANGED envVars

MonClear(c) ==
    /\ send_pc[c] = "idle"
    /\ clear(c)
    /\ UNCHANGED <<txVars, pirateVars, fifoVars, hw_sent>>
    /\ UNCHANGED envVars

(* -------------------- get_rx_stream, get_tx_stream -------------------- *)
\* a channel of a streamer that the loop over the boards left without a
\* get_buff callback
Unbound == [bound |-> FALSE, mb |-> 0, dsp |-> 0, abs |-> 0]

\* get_rx_stream, the BOOST_FOREACH over _mbc.keys() from board b on:
\*   num_chan_so_far += rx_chan_occ;
\*   if (chan < num_chan_so_far) dsp = chan + rx_chan_occ - num_chan_so_far
RECURSIVE rx_bind_chan(_, _, _)
rx_bind_chan(chan, b, num_chan_so_far) ==
    IF b > Len(mbc)
    THEN Unbound
    ELSE LET so_far == num_chan_so_far + mbc[b].rx_chan_occ
         IN  IF chan < so_far
             THEN [bound |-> TRUE, mb |-> b,
                   dsp |-> chan + mbc[b].rx_chan_occ - so_far, abs |-> 0]
             ELSE rx_bind_chan(chan, b + 1, so_far)

\* variant: the test is "chan <= num_chan_so_far"
RECURSIVE tx_bind_chan_inclusive(_, _, _, _)
tx_bind_chan_inclusive(chan, b, num_chan_so_far, abs) ==
    IF b > Len(mbc)
    THEN Unbound
    ELSE LET so_far == num_chan_so_far + mbc[b].tx_chan_occ
             dsp == chan + mbc[b].tx_chan_occ - so_far
         IN  IF chan <= so_far
             THEN [bound |-> TRUE, mb |-> b, dsp |-> dsp, abs |-> abs + dsp]
             ELSE tx_bind_chan_inclusive(chan, b + 1, so_far, abs + NumTxDsp)

\* variant: abs is advanced by the board's occupancy, "abs += tx_chan_occ"
RECURSIVE tx_bind_chan_abs_by_occ(_, _, _, _)
tx_bind_chan_abs_by_occ(chan, b, num_chan_so_far, abs) ==
    IF b > Len(mbc)
    THEN Unbound
    ELSE LET so_far == num_chan_so_far + mbc[b].tx_chan_occ
             dsp == chan + mbc[b].tx_chan_occ - so_far
         IN  IF chan < so_far
             THEN [bound |-> TRUE, mb |-> b, dsp |-> dsp, abs |-> abs + dsp]
             ELSE tx_bind_chan_abs_by_occ(chan, b + 1, so_far,
                                          abs + mbc[b].tx_chan_occ)

\* get_tx_stream, the same loop with tx_chan_occ; abs counts the monitors of
\* the boards passed ("abs += 2"), and abs+dsp is the index into fc_mons
RECURSIVE tx_bind_chan(_, _, _, _)
tx_bind_chan(chan, b, num_chan_so_far, abs) ==
    IF b > Len(mbc)
    THEN Unbound
    ELSE LET so_far == num_chan_so_far + mbc[b].tx_chan_occ
             dsp == chan + mbc[b].tx_chan_occ - so_far
         IN  IF chan < so_far
             THEN [bound |-> TRUE, mb |-> b, dsp |-> dsp, abs |-> abs + dsp]
             ELSE tx_bind_chan(chan, b + 1, so_far, abs + NumTxDsp)

\* args.channels = args.channels.empty()? std::vector<size_t>(1, 0) : args.channels
default_channels(channels) == IF channels = <<>> THEN <<0>> ELSE channels

\* args.otw_format = args.otw_format.empty()? "sc16" : args.otw_format
default_otw_format(otw_format) == IF otw_format = "" THEN "sc16" ELSE otw_format

\* convert::get_bytes_per_item: an sc16 item is two 16 bit words, an sc8 item
\* two bytes
get_bytes_per_item(otw_format) == IF otw_format = "sc16" THEN 4 ELSE 2

\* bpp = get_recv_frame_size() - hdr_size; spp = bpp/get_bytes_per_item(otw_format)
rx_spp(recv_frame_size, otw_format) ==
    (recv_frame_size - RxHdrSize) \div get_bytes_per_item(otw_format)

\* the last stream call has bound all its channels and returned
stream_returned == Len(my_streamer.xport_chan) = Len(my_streamer.channels)

\* ids of streamer objects (0 stands for a null pointer)
StreamerIds == 1 .. MaxStreamers

\* a streamer object exists while a shared pointer to it does: the handle
\* the application got, the local my_streamer of the stream call that is
\* making it, or the pointer an update obtained from weak_ptr::lock()
Alive(id) ==
    \/ app_streamers[id].dir # "none"
    \/ my_streamer.id = id /\ ~stream_returned
    \/ upd.owner = id

\* ids no object has, and that no raw pointer is left pointing at
FreeIds == {id \in StreamerIds : ~Alive(id) /\ upd.ptr # id}

\* boost::make_shared: the new object
NewId == CHOOSE id \in FreeIds : \A other \in FreeIds : id <= other

\* the weak pointers of a table once object id is destroyed: lock() on an
\* expired weak pointer gives null, as on one never set; both are kept as 0
expire(streamers, id) ==
    [b \in DOMAIN streamers |->
        [dsp \in DOMAIN streamers[b] |->
            IF streamers[b][dsp] = id THEN 0 ELSE streamers[b][dsp]]]

\* what the stream calls leave alone
streamFrame ==
    UNCHANGED <<txVars, pirateVars, fifoVars, hw_sent,
                send_interruption_requested, io_impl_pc, pirate_tasks, mbc,
                upd, codecVars, acked_count, null_returns, raceVars>>

\* get_rx_stream up to the loop over args.channels: spp is worked out from
\* the frame size of the first board's rx transport and a new streamer is
\* made with it
get_rx_stream(otw_format, channels, recv_frame_size) ==
    /\ stream_returned
    /\ FreeIds # {}
    /\ my_streamer' =
           [dir |-> "rx", id |-> NewId,
            otw_format |-> default_otw_format(otw_format),
            channels |-> default_channels(channels), noclear |-> FALSE,
            recv_frame_size |-> recv_frame_size,
            spp |-> rx_spp(recv_frame_size, default_otw_format(otw_format)),
            programmed |-> FALSE, samp_rate |-> 0, xport_chan |-> <<>>]
    /\ stream_error' = "none"
    /\ UNCHANGED <<monVars, histVars, app_streamers, rx_streamers,
                   tx_streamers, nsamps_per_packet>>
    /\ streamFrame

\* get_rx_stream, one pass of the loop over args.channels, first half: when
\* a board has the channel, rx_dsps[dsp]->set_nsamps_per_packet(spp)
GetRxStreamDsp ==
    /\ my_streamer.dir = "rx"
    /\ ~stream_returned
    /\ ~my_streamer.programmed
    /\ LET chan_i == Len(my_streamer.xport_chan) + 1
           chan == my_streamer.channels[chan_i]
           found == rx_bind_chan(chan, 1, 0)
       IN  /\ found.bound
           /\ nsamps_per_packet' =
                  [nsamps_per_packet EXCEPT ![found.mb][found.dsp] =
                      my_streamer.spp]
    /\ my_streamer' = [my_streamer EXCEPT !.programmed = TRUE]
    /\ UNCHANGED <<monVars, histVars, stream_error, app_streamers,
                   rx_streamers, tx_streamers>>
    /\ streamFrame

\* variant: the callback is bound without waiting for set_nsamps_per_packet
GetRxStreamBind_eager ==
    /\ my_streamer.dir = "rx"
    /\ ~stream_returned
    /\ LET chan_i == Len(my_streamer.xport_chan) + 1
           chan == my_streamer.channels[chan_i]
           found == rx_bind_chan(chan, 1, 0)
           made == [my_streamer EXCEPT !.xport_chan = Append(@, found),
                                       !.programmed = FALSE]
       IN  /\ my_streamer' = made
           /\ rx_streamers' =
                  IF found.bound
                  THEN [rx_streamers EXCEPT ![found.mb][found.dsp] =
                           my_streamer.id]
                  ELSE rx_streamers
           /\ app_streamers' =
                  IF chan_i = Len(my_streamer.channels)
                  THEN [app_streamers EXCEPT ![my_streamer.id] = made]
                  ELSE app_streamers
    /\ UNCHANGED <<monVars, histVars, stream_error, tx_streamers,
                   nsamps_per_packet>>
    /\ streamFrame

\* get_rx_stream, one pass of the loop over args.channels, second half:
\* set_xport_chan_get_buff(chan_i, ...) and "rx_streamers[dsp] = my_streamer";
\* after the last pass the streamer is returned to the application
GetRxStreamBind ==
    /\ my_streamer.dir = "rx"
    /\ ~stream_returned
    /\ LET chan_i == Len(my_streamer.xport_chan) + 1
           chan == my_streamer.channels[chan_i]
           found == rx_bind_chan(chan, 1, 0)
           made == [my_streamer EXCEPT !.xport_chan = Append(@, found),
                                       !.programmed = FALSE]
       IN  /\ found.bound => my_streamer.programmed
           /\ my_streamer' = made
           /\ rx_streamers' =
                  IF found.bound
                  THEN [rx_streamers EXCEPT ![found.mb][found.dsp] =
                           my_streamer.id]
                  ELSE rx_streamers
           /\ app_streamers' =
                  IF chan_i = Len(my_streamer.channels)
                  THEN [app_streamers EXCEPT ![my_streamer.id] = made]
                  ELSE app_streamers
    /\ UNCHANGED <<monVars, histVars, stream_error, tx_streamers,
                   nsamps_per_packet>>
    /\ streamFrame

\* the streamer get_tx_stream makes (its packet size is not kept)
tx_streamer(otw_format, channels, noclear) ==
    [dir |-> "tx", id |-> NewId,
     otw_format |-> default_otw_format(otw_format),
     channels |-> default_channels(channels), noclear |-> noclear,
     recv_frame_size |-> 0, spp |-> 0, programmed |-> FALSE,
     samp_rate |-> 0,
     xport_chan |-> <<>>]

\* variant: the wire format is tested after the streamer has been made
get_tx_stream_late_check(otw_format, channels, noclear) ==
    /\ stream_returned
    /\ FreeIds # {}
    /\ my_streamer' = tx_streamer(otw_format, channels, noclear)
    /\ stream_error' = IF default_otw_format(otw_format) # "sc16"
                       THEN "value_error" ELSE "none"
    /\ UNCHANGED <<monVars, histVars, app_streamers, rx_streamers,
                   tx_streamers, nsamps_per_packet>>
    /\ streamFrame

\* get_tx_stream up to the loop over args.channels: an otw_format other than
\* "sc16" (the default of an empty one) throws uhd::value_error, otherwise a
\* new streamer is made
get_tx_stream(otw_format, channels, noclear) ==
    /\ stream_returned
    /\ IF default_otw_format(otw_format) # "sc16"
       THEN /\ stream_error' = "value_error"
            /\ UNCHANGED my_streamer
       ELSE /\ FreeIds # {}
            /\ my_streamer' = tx_streamer(otw_format, channels, noclear)
            /\ stream_error' = "none"
    /\ UNCHANGED <<monVars, histVars, app_streamers, rx_streamers,
                   tx_streamers, nsamps_per_packet>>
    /\ streamFrame

\* variant: the monitor cleared is fc_mons[abs], without the dsp offset
GetTxStreamBind_clear_abs ==
    /\ my_streamer.dir = "tx"
    /\ ~stream_returned
    /\ LET chan_i == Len(my_streamer.xport_chan) + 1
           chan == my_streamer.channels[chan_i]
           found == tx_bind_chan(chan, 1, 0, 0)
           made == [my_streamer EXCEPT !.xport_chan = Append(@, found)]
       IN  /\ my_streamer' = made
           /\ IF found.bound /\ ~my_streamer.noclear
              THEN clear(found.abs - found.dsp)
              ELSE UNCHANGED <<monVars, histVars>>
           /\ tx_streamers' =
                  IF found.bound
                  THEN [tx_streamers EXCEPT ![found.mb][found.dsp] =
                           my_streamer.id]
                  ELSE tx_streamers
           /\ app_streamers' =
                  IF chan_i = Len(my_streamer.channels)
                  THEN [app_streamers EXCEPT ![my_streamer.id] = made]
                  ELSE app_streamers
    /\ UNCHANGED <<stream_error, rx_streamers, nsamps_per_packet>>
    /\ streamFrame

\* get_tx_stream, one pass of the loop over args.channels: the monitor of
\* the channel found is cleared unless the args have "noclear", get_send_buff
\* of io_impl is bound with the index abs+dsp, and "tx_streamers[dsp] =
\* my_streamer"; after the last pass the streamer is returned
GetTxStreamBind ==
    /\ my_streamer.dir = "tx"
    /\ ~stream_returned
    /\ LET chan_i == Len(my_streamer.xport_chan) + 1
           chan == my_streamer.channels[chan_i]
           found == tx_bind_chan(chan, 1, 0, 0)
           made == [my_streamer EXCEPT !.xport_chan = Append(@, found)]
       IN  /\ my_streamer' = made
           /\ IF found.bound /\ ~my_streamer.noclear
              THEN clear(found.abs)
              ELSE UNCHANGED <<monVars, histVars>>
           /\ tx_streamers' =
                  IF found.bound
                  THEN [tx_streamers EXCEPT ![found.mb][found.dsp] =
                           my_streamer.id]
                  ELSE tx_streamers
           /\ app_streamers' =
                  IF chan_i = Len(my_streamer.channels)
                  THEN [app_streamers EXCEPT ![my_streamer.id] = made]
                  ELSE app_streamers
    /\ UNCHANGED <<stream_error, rx_streamers, nsamps_per_packet>>
    /\ streamFrame

(* ------------- streamers dropped, and the rate updates ---------------- *)
\* no streamer has been made
NoStreamer ==
    [dir |-> "none", id |-> 0, otw_format |-> "sc16", channels |-> <<>>,
     noclear |-> FALSE, recv_frame_size |-> 0, spp |-> 0,
     programmed |-> FALSE, samp_rate |-> 0, xport_chan |-> <<>>]

\* what dropping a streamer and the updates leave alone
rateFrame ==
    UNCHANGED <<monVars, histVars, txVars, pirateVars, fifoVars, hw_sent,
                send_interruption_requested, io_impl_pc, pirate_tasks, mbc,
                stream_error, nsamps_per_packet, codecVars, acked_count,
                null_returns, raceVars>>

\* the application lets go of the streamer it was handed; the object is
\* destroyed unless an update has it locked
drop_streamer(id) ==
    /\ app_streamers[id].dir # "none"
    /\ app_streamers' = [app_streamers EXCEPT ![id] = NoStreamer]
    /\ IF upd.owner = id
       THEN UNCHANGED <<rx_streamers, tx_streamers>>
       ELSE /\ rx_streamers' = expire(rx_streamers, id)
            /\ tx_streamers' = expire(tx_streamers, id)
    /\ UNCHANGED <<upd, my_streamer>>
    /\ rateFrame

\* the rates an update may carry
SampRates == {1, 2}

\* no update is running
NoUpdate ==
    [pc |-> "idle", dir |-> "tx", mb |-> 1, dsp |-> 0, rate |-> 0,
     owner |-> 0, ptr |-> 0]

\* _mbc[mb].rx_streamers or _mbc[mb].tx_streamers
streamers_of(dir) == IF dir = "rx" THEN rx_streamers ELSE tx_streamers

\* update_rx_samp_rate / update_tx_samp_rate: "_mbc[mb].tx_streamers[dsp]
\* .lock()" starts by taking a reference through the weak pointer's control
\* block; with an empty or expired weak pointer the result is null and the
\* function returns
update_samp_rate(dir, mb, dsp, rate) ==
    /\ upd.pc = "idle"
    /\ LET id == streamers_of(dir)[mb][dsp]
       IN  IF id = 0
           THEN UNCHANGED upd
           ELSE upd' = [pc |-> "pn", dir |-> dir, mb |-> mb, dsp |-> dsp,
                        rate |-> rate, owner |-> id, ptr |-> 0]
    /\ UNCHANGED <<app_streamers, my_streamer, rx_streamers, tx_streamers>>
    /\ rateFrame

\* ... and then copies the weak pointer's object pointer.  The table entry
\* is assigned by the stream calls under no lock, so it may by now be the
\* entry of another streamer than the one whose reference was taken.
UpdateSampRateLock ==
    /\ upd.pc = "pn"
    /\ upd' = [upd EXCEPT !.pc = "locked",
                          !.ptr = streamers_of(upd.dir)[upd.mb][upd.dsp]]
    /\ UNCHANGED <<app_streamers, my_streamer, rx_streamers, tx_streamers>>
    /\ rateFrame

\* "if (my_streamer.get() == NULL) return; my_streamer->set_samp_rate(rate)",
\* then the local shared pointer goes, and with it the object if the
\* reference taken was the last.  The rate lands in the object pointed at,
\* be it in the application's hands or still in those of the stream call
\* making it; a write through a pointer to a destroyed object is not kept.
UpdateSampRateSet ==
    /\ upd.pc = "locked"
    /\ upd' = NoUpdate
    /\ app_streamers' =
           IF upd.ptr # 0 /\ app_streamers[upd.ptr].dir # "none"
           THEN [app_streamers EXCEPT ![upd.ptr].samp_rate = upd.rate]
           ELSE app_streamers
    /\ my_streamer' =
           IF upd.ptr # 0 /\ my_streamer.id = upd.ptr /\ ~stream_returned
           THEN [my_streamer EXCEPT !.samp_rate = upd.rate]
           ELSE my_streamer
    /\ IF \/ app_streamers[upd.owner].dir # "none"
          \/ my_streamer.id = upd.owner /\ ~stream_returned
       THEN UNCHANGED <<rx_streamers, tx_streamers>>
       ELSE /\ rx_streamers' = expire(rx_streamers, upd.owner)
            /\ tx_streamers' = expire(tx_streamers, upd.owner)
    /\ rateFrame

(* ------------------------------ ~io_impl ------------------------------ *)
\* what the steps of the destructor leave alone
dtorFrame ==
    UNCHANGED <<monVars, histVars, txVars, pirate_pc, pirate_buff, late_frame,
                fifoVars, hw_sent, send_interruption_requested, mbc,
                my_streamer, sessVars, codecVars, acked_count, null_returns, raceVars>>

\* variant: the destructor has no body, so the members go in reverse order
\* of declaration and async_msg_fifo is released before pirate_tasks
io_impl_dtor_default ==
    /\ io_impl_pc = "alive"
    /\ io_impl_pc' = "released"
    /\ UNCHANGED <<interruption_requested, pirate_tasks>>
    /\ dtorFrame

\* ~io_impl(void) is entered; its body is pirate_tasks.clear()
io_impl_dtor ==
    /\ io_impl_pc = "alive"
    /\ io_impl_pc' = "clear"
    /\ UNCHANGED <<interruption_requested, pirate_tasks>>
    /\ dtorFrame

\* clear() destroys the tasks front to back; destroying a task first
\* requests the interruption of its thread
task_interrupt ==
    /\ io_impl_pc = "clear"
    /\ pirate_tasks # <<>>
    /\ ~interruption_requested[Head(pirate_tasks)]
    /\ interruption_requested' =
           [interruption_requested EXCEPT ![Head(pirate_tasks)] = TRUE]
    /\ UNCHANGED <<io_impl_pc, pirate_tasks>>
    /\ dtorFrame

\* ... and then joins the thread: the destructor goes on once the loop of
\* that task has returned
task_join ==
    /\ io_impl_pc = "clear"
    /\ pirate_tasks # <<>>
    /\ interruption_requested[Head(pirate_tasks)]
    /\ pirate_pc[Head(pirate_tasks)] = "done"
    /\ pirate_tasks' = Tail(pirate_tasks)
    /\ UNCHANGED <<io_impl_pc, interruption_requested>>
    /\ dtorFrame

\* after the body the members are destroyed: async_msg_fifo, pirate_tasks
\* (empty by now), fc_mons, tx_xports
io_impl_release ==
    /\ io_impl_pc = "clear"
    /\ pirate_tasks = <<>>
    /\ io_impl_pc' = "released"
    /\ UNCHANGED <<interruption_requested, pirate_tasks>>
    /\ dtorFrame

(* ------------------------------- Init --------------------------------- *)
\* a board's entry in _mbc with one rx and one tx channel in use
DefaultOcc == [rx_chan_occ |-> 1, tx_chan_occ |-> 1]

\* variant: one pirate task per board, on its first tx dsp transport
make_pirate_tasks_per_board(occ) ==
    [k \in 1 .. Len(occ) |-> (k - 1) * NumTxDsp]

\* io_impl::tx_xports after the first loop of io_init has passed b boards:
\* push_back(tx_dsp_xports[0]), push_back(tx_dsp_xports[1]) for each; fc_mons
\* gets a monitor at the same two positions
RECURSIVE push_tx_xports(_)
push_tx_xports(b) ==
    IF b = 0
    THEN <<>>
    ELSE push_tx_xports(b - 1)
            \o <<[mb |-> b, dsp |-> 0], [mb |-> b, dsp |-> 1]>>

\* io_impl::tx_xports of the device
tx_xports == push_tx_xports(Len(mbc))

\* the tasks made by the last loop of io_init once it has passed b boards,
\* each with the arguments bound to its recv_pirate_loop: the transport
\* err_xport and the value of index++
RECURSIVE spawn_pirates(_)
spawn_pirates(b) ==
    IF b = 0
    THEN <<>>
    ELSE LET crew == spawn_pirates(b - 1)
             index == Len(crew)
         IN  crew \o <<[err_xport |-> [mb |-> b, dsp |-> 0], index |-> index],
                       [err_xport |-> [mb |-> b, dsp |-> 1], index |-> index + 1]>>

\* "create a new pirate thread for each zc if": for every board a task on
\* tx_dsp_xports[0] and one on tx_dsp_xports[1], numbered by index++
make_pirate_tasks(occ) ==
    LET crew == spawn_pirates(Len(occ))
    IN  [k \in 1 .. Len(crew) |-> crew[k].index]

\* state after io_init on a device whose boards, in registration order, have
\* the channel occupancies occ: two monitors per board constructed (the
\* constructor calls clear), one pirate task per tx dsp transport started,
\* fifo empty
io_init(occ) ==
    LET chans == 0 .. (Len(occ) * NumTxDsp - 1)
    IN  /\ last_seq_out = [c \in chans |-> 0]
        /\ last_seq_ack = [c \in chans |-> 0]
        /\ send_pc = [c \in chans |-> "idle"]
        /\ fc_ret = [c \in chans |-> "none"]
        /\ send_buff = [c \in chans |-> NullSendBuff]
        /\ send_log = [c \in chans |-> <<>>]
        /\ seq_log = [c \in chans |-> <<>>]
        /\ last_ack_arg = [c \in chans |-> -1]
        /\ ack_decreased = [c \in chans |-> FALSE]
        /\ pirate_pc = [c \in chans |-> "top"]
        /\ pirate_buff = [c \in chans |-> NullRecvBuff]
        /\ interruption_requested = [c \in chans |-> FALSE]
        /\ late_frame = [c \in chans |-> FALSE]
        /\ async_msg_fifo = <<>>
        /\ async_metadata = NoMetadata
        /\ async_found = FALSE
        /\ push_log = <<>>
        /\ pushed_buff = [has_tsi |-> FALSE, has_tsf |-> FALSE]
        /\ pop_pc = "idle"
        /\ hw_sent = 0
        /\ send_interruption_requested = [c \in chans |-> FALSE]
        /\ io_impl_pc = "alive"
        /\ pirate_tasks = make_pirate_tasks(occ)
        /\ mbc = occ
        /\ my_streamer = NoStreamer
        /\ stream_error = "none"
        /\ app_streamers = [id \in StreamerIds |-> NoStreamer]
        /\ rx_streamers =
               [b \in 1 .. Len(occ) |-> [dsp \in 0 .. NumRxDsp - 1 |-> 0]]
        /\ tx_streamers =
               [b \in 1 .. Len(occ) |-> [dsp \in 0 .. NumTxDsp - 1 |-> 0]]
        /\ nsamps_per_packet =
               [b \in 1 .. Len(occ) |-> [dsp \in 0 .. NumRxDsp - 1 |-> 0]]
        /\ upd = NoUpdate
        /\ if_packet_info = NoPacketInfo
        /\ vrt_buff = NoVrtBuff
        /\ unpacked_info = NoPacketInfo
        /\ acked_count = [c \in chans |-> 0]
        /\ null_returns = [c \in chans |-> NoNullReturns]
        /\ send_threads = [t \in SendThreads |-> NoSendThread]
        /\ calls_overlapped = [c \in chans |-> FALSE]

Init == io_init([b \in 1 .. Len(MboardKeys) |-> DefaultOcc])

(* ------------------- what the transports deliver ---------------------- *)
\* the async stream id of the tx dsp behind pirate task i
OwnSid(i) == IF i % NumTxDsp = 0 THEN "USRP2_TX_ASYNC_SID_BASE+0"
                                 ELSE "USRP2_TX_ASYNC_SID_BASE+1"

\* flow control updates on task i's own stream, any credit word
AckFrames(i) ==
    {Frame(OwnSid(i), "PACKET_TYPE_CONTEXT", TRUE, TRUE, hw_sent, 0, w) :
        w \in WireWords}

\* flow control updates on task i's own stream cut off after the context
\* word, in front of any leftover word
ShortAckFrames(i) ==
    {ShortFrame(OwnSid(i), "PACKET_TYPE_CONTEXT", hw_sent, 0, w) :
        w \in WireWords}

(* --- SpecMon: one monitor driven through its operations, with the ----- *)
(* --- pirate task of the same channel delivering acknowledgements ------ *)
MonRecv(c) ==
    \E b \in AckFrames(c) \cup ShortAckFrames(c) \cup {NullRecvBuff} :
        /\ hw_sent < MaxAcks
        /\ get_recv_buff(c, b)

NextMon ==
    \E c \in {0} :
        \/ MonNextSequence(c)
        \/ MonWaitReady(c)
        \/ WaitWoken(c)
        \/ WaitTimeout(c)
        \/ WaitSpurious(c)
        \/ MonWaitReturn(c)
        \/ MonClear(c)
        \/ interrupt_sender(c)
        \/ PirateLoopTop(c)
        \/ MonRecv(c)
        \/ PirateProcess(c)
        \/ PirateNotify(c)

SpecMon == Init /\ [][NextMon]_vars

(* --- SpecTx: one channel's sender calling get_send_buff, the hardware - *)
(* --- acknowledging issued sequence numbers in order -------------------- *)
\* acknowledgements that name a sequence number issued and not yet passed:
\* one of last_seq_ack .. last_seq_out - 1 in sequence order
OrderedAckFrames(i) ==
    {b \in AckFrames(i) :
        seq_type(ntohx(b.fc_word32) - last_seq_ack[i])
            < seq_type(last_seq_out[i] - last_seq_ack[i])}

TxRecv(c) ==
    \E b \in OrderedAckFrames(c) \cup {NullRecvBuff} :
        /\ hw_sent < MaxAcks
        /\ get_recv_buff(c, b)

NextTx ==
    \E c \in {0} :
        \/ GetSendBuffCheck(c)
        \/ WaitWoken(c)
        \/ WaitTimeout(c)
        \/ WaitSpurious(c)
        \/ GetSendBuffXport(c)
        \/ GetSendBuffSeq(c)
        \/ PirateLoopTop(c)
        \/ TxRecv(c)
        \/ PirateProcess(c)
        \/ PirateNotify(c)

SpecTx == Init /\ [][NextTx]_vars

\* the same under a scheduler that lets the transmit thread run: the timer of
\* timed_wait fires, a woken waiter gets the mutex, the transport's
\* get_send_buff(timeout) comes back, and the thread goes on after it
FairTx ==
    \A c \in {0} :
        /\ WF_vars(WaitTimeout(c))
        /\ WF_vars(WaitWoken(c))
        /\ WF_vars(GetSendBuffXport(c))
        /\ WF_vars(GetSendBuffSeq(c))

SpecTxLive == Init /\ [][NextTx]_vars /\ FairTx

(* --- Spec: every pirate task receiving arbitrary buffers, and the ------ *)
(* --- application polling the async message fifo ------------------------ *)
\* credit words carried by the flow control updates of Spec
StatusWords == {htonx(0), htonx(1), htonx(SeqModulus - 1)}

RecvBuffs ==
    {NullRecvBuff, MalformedBuff} \cup
    {Frame(sid, pt, TRUE, TRUE, hw_sent, 0, w) :
        sid \in Sids, pt \in PacketTypes, w \in StatusWords} \cup
    {Frame(sid, pt, tsi, tsf, hw_sent, code, htonx(0)) :
        sid \in Sids, pt \in PacketTypes, tsi \in BOOLEAN, tsf \in BOOLEAN,
        code \in ContextCodes \ {0}}

PirateRecv(i) ==
    \E b \in RecvBuffs :
        /\ hw_sent < MaxFrames
        /\ get_recv_buff(i, b)

Next ==
    \/ \E i \in Chans :
        \/ PirateLoopTop(i)
        \/ PirateRecv(i)
        \/ PirateProcess(i)
        \/ PirateNotify(i)
    \/ recv_async_msg
    \/ RecvAsyncReturn

Spec == Init /\ [][Next]_vars

(* --- SpecFifo: pirate task 0 fills the fifo with time-stamped underflow - *)
(* --- reports, then both tasks push into the full fifo, while the ------- *)
(* --- application polls ------------------------------------------------- *)
UnderflowFrames(i) ==
    {Frame(OwnSid(i), "PACKET_TYPE_CONTEXT", TRUE, TRUE, hw_sent, 2, htonx(0))}

FifoRecv(i) ==
    \E b \in UnderflowFrames(i) :
        /\ hw_sent < AsyncFifoDepth + ExtraPushes
        /\ i # 0 => hw_sent >= AsyncFifoDepth - 1
        /\ get_recv_buff(i, b)

NextFifo ==
    \/ \E i \in Chans :
        \/ PirateLoopTop(i)
        \/ FifoRecv(i)
        \/ PirateProcess(i)
    \/ recv_async_msg
    \/ RecvAsyncReturn

SpecFifo == Init /\ [][NextFifo]_vars

(* --- SpecLive: the pirate tasks under a fair scheduler, the ----------- *)
(* --- application polling for messages, and the engine being destroyed -- *)
\* one buffer of each kind the loop tells apart: a flow control update and
\* an underflow report on the task's own stream, a frame the unpacker
\* rejects, a frame of another stream, a data packet, and a timeout
LiveBuffs(i) ==
    {NullRecvBuff, MalformedBuff,
     Frame(OwnSid(i), "PACKET_TYPE_CONTEXT", TRUE, TRUE, hw_sent, 0, htonx(1)),
     Frame(OwnSid(i), "PACKET_TYPE_CONTEXT", TRUE, TRUE, hw_sent, 2, htonx(0)),
     Frame("USRP2_RX_SID_BASE+0", "PACKET_TYPE_CONTEXT", TRUE, TRUE, hw_sent, 2,
           htonx(0)),
     Frame(OwnSid(i), "PACKET_TYPE_DATA", TRUE, TRUE, hw_sent, 2, htonx(0))}

\* every receive call returns; once the hardware has sent its frames the
\* call returns null after its timeout
LiveRecv(i) ==
    \E b \in (IF hw_sent < MaxLiveFrames THEN LiveBuffs(i) ELSE {NullRecvBuff}) :
        get_recv_buff(i, b)

NextLive ==
    \/ \E i \in Chans :
        \/ PirateLoopTop(i)
        \/ LiveRecv(i)
        \/ PirateProcess(i)
        \/ PirateNotify(i)
    \/ recv_async_msg
    \/ RecvAsyncReturn
    \/ io_impl_dtor
    \/ task_interrupt
    \/ task_join
    \/ io_impl_release

\* each thread that can take a step eventually takes one
FairLive ==
    /\ \A i \in Chans :
        /\ WF_vars(PirateLoopTop(i))
        /\ WF_vars(LiveRecv(i))
        /\ WF_vars(PirateProcess(i))
        /\ WF_vars(PirateNotify(i))
    /\ WF_vars(RecvAsyncReturn)

SpecLive == Init /\ [][NextLive]_vars /\ FairLive

(* --- SpecBind: a streamer made on devices of one or more boards with --- *)
(* --- every channel occupancy ------------------------------------------- *)
\* channel occupancies update_rx_subdev_spec / update_tx_subdev_spec can have
\* left on a board: the number of subdevices named, at most one per dsp
Occupancies ==
    [rx_chan_occ : 0 .. NumRxDsp, tx_chan_occ : 0 .. NumTxDsp]

InitBind ==
    \E n \in 1 .. MaxBoards :
        \E occ \in [1 .. n -> Occupancies] : io_init(occ)

\* args.channels of a stream request: empty, one index, or an index and the
\* one below it; the indices go up to the first one that no device of
\* MaxBoards boards has
StreamChannels ==
    {<<>>} \cup {<<c>> : c \in 0 .. MaxBoards * NumTxDsp}
           \cup {<<c, c - 1>> : c \in 1 .. MaxBoards * NumTxDsp}

\* args.otw_format of a stream request: left empty, or one of two formats
OtwFormats == {"", "sc16", "sc8"}

\* get_recv_frame_size() of an rx transport: room for the header and one and
\* a half sc16 items, or an ethernet frame's worth
RecvFrameSizes == {RxHdrSize + 6, 1472}

\* one stream call on each device
NextBind ==
    \/ /\ my_streamer.dir = "none"
       /\ \E otw_format \in OtwFormats, channels \in StreamChannels,
             recv_frame_size \in RecvFrameSizes :
               get_rx_stream(otw_format, channels, recv_frame_size)
    \/ GetRxStreamDsp
    \/ GetRxStreamBind
    \/ /\ my_streamer.dir = "none"
       /\ \E otw_format \in OtwFormats, channels \in StreamChannels,
             noclear \in BOOLEAN :
               get_tx_stream(otw_format, channels, noclear)
    \/ GetTxStreamBind

SpecBind == InitBind /\ [][NextBind]_vars

(* --- SpecCodec: headers of every shape are packed and unpacked -------- *)
\* sequence and time values: 0, 1, the top bit alone, all bits set
EdgeWords == {0, 1, SeqModulus \div 2, SeqModulus - 1}

\* the headers packed: data and status types, every combination of the time
\* stamp fields, each numeric field at the edge values
Headers ==
    {info \in [seq : EdgeWords, packet_type : PacketTypes, sid : Sids,
               has_tsi : BOOLEAN, tsi : EdgeWords,
               has_tsf : BOOLEAN, tsf : {0, 1}, tlr : {0, 1}] :
        /\ ~info.has_tsi => info.tsi = 0
        /\ ~info.has_tsf => info.tsf = 0}

NextCodec ==
    \/ \E info \in Headers : VrtPack(info)
    \/ VrtUnpack

SpecCodec == Init /\ [][NextCodec]_vars

(* --- SpecWrap: next_sequence and acknowledge called on one monitor ---- *)
(* --- past the wrap of seq_type, next to counters that do not wrap ------ *)
\* the hardware acknowledges number n, between the number it acknowledged
\* last and the count of numbers issued; the frame carries n as a seq_type
WrapAcknowledge(c, n) ==
    /\ update_fc_condition(c, seq_type(n))
    /\ acked_count' = [acked_count EXCEPT ![c] = n]
    /\ UNCHANGED <<txVars, pirateVars, fifoVars, hw_sent,
                   send_interruption_requested, io_impl_pc, pirate_tasks, mbc,
                   my_streamer, sessVars, codecVars, null_returns, raceVars>>

NextWrap ==
    \E c \in {0} :
        \/ MonNextSequence(c)
        \/ \E n \in acked_count[c] .. Len(seq_log[c]) : WrapAcknowledge(c, n)
        \/ MonWaitReady(c)
        \/ WaitTimeout(c)
        \/ MonWaitReturn(c)

SpecWrap == Init /\ [][NextWrap]_vars

(* --- SpecSession: one board with both tx channels in use; the --------- *)
(* --- application opens and drops tx streamers and sends through them, -- *)
(* --- and the hardware acknowledges ------------------------------------- *)
InitSession ==
    io_init(<<[rx_chan_occ |-> NumRxDsp, tx_chan_occ |-> NumTxDsp]>>)

\* a tx streamer the application holds has get_send_buff of channel c bound
Sendable(c) ==
    \E id \in StreamerIds :
        /\ app_streamers[id].dir = "tx"
        /\ \E chan_i \in 1 .. Len(app_streamers[id].xport_chan) :
               /\ app_streamers[id].xport_chan[chan_i].bound
               /\ app_streamers[id].xport_chan[chan_i].abs = c

\* the application thread is between two calls
AppIdle == stream_returned /\ \A c \in Chans : send_pc[c] = "idle"

\* ... and no pirate task is working on a frame
Quiet == AppIdle /\ \A i \in Chans : pirate_pc[i] \in {"top", "recv"}

\* a send through a streamer asks for a buffer of one of its channels
SessionSend(c) ==
    /\ Quiet
    /\ Sendable(c)
    /\ last_seq_out[c] < MaxSessionSends
    /\ GetSendBuffCheck(c)

\* ... from a transport that has one
SessionXport(c) ==
    /\ GetSendBuffXport(c)
    /\ send_pc'[c] = "seq"

\* the hardware acknowledges, on the channel's own stream, what the monitor
\* has issued; in this specification a frame comes in between two calls of
\* the application, and is dealt with before the next
SessionRecv(i) ==
    /\ AppIdle
    /\ hw_sent < MaxSessionSends
    /\ last_seq_out[i] # last_seq_ack[i]
    /\ get_recv_buff(i, Frame(OwnSid(i), "PACKET_TYPE_CONTEXT", TRUE, TRUE,
                              0, 0, htonx(last_seq_out[i])))

\* args.channels of the sessions: the default (channel 0), or both channels
SessionChannels == {<<>>, <<0, 1>>}

NextSession ==
    \/ /\ Quiet
       /\ \E otw_format \in {"", "sc8"}, channels \in SessionChannels,
             noclear \in BOOLEAN :
               get_tx_stream(otw_format, channels, noclear)
    \/ GetTxStreamBind
    \/ Quiet /\ \E id \in StreamerIds : drop_streamer(id)
    \/ \E c \in Chans :
        \/ SessionSend(c)
        \/ SessionXport(c)
        \/ GetSendBuffSeq(c)
    \/ \E i \in {0} :
        \/ PirateLoopTop(i)
        \/ SessionRecv(i)
        \/ PirateProcess(i)
        \/ PirateNotify(i)

SpecSession == InitSession /\ [][NextSession]_vars

(* --- SpecReset: as SpecSession on channel 0, but the pirate task runs -- *)
(* --- while the application opens streamers and sends ------------------- *)
\* a send through a streamer: get_send_buff of the channel is entered
ResetSend(c) ==
    /\ stream_returned
    /\ Sendable(c)
    /\ Len(seq_log[c]) < MaxResetSends
    /\ GetSendBuffCheck(c)

\* the hardware acknowledges, on the channel's own stream, the packets it
\* was sent since the monitor was cleared, once it has them
ResetRecv(i) ==
    /\ stream_returned
    /\ send_pc[i] = "idle"
    /\ hw_sent < MaxAcks
    /\ seq_log[i] # <<>>
    /\ last_ack_arg[i] # last_seq_out[i]
    /\ get_recv_buff(i, Frame(OwnSid(i), "PACKET_TYPE_CONTEXT", TRUE, TRUE,
                              0, 0, htonx(last_seq_out[i])))

NextReset ==
    \/ /\ AppIdle
       /\ \E noclear \in BOOLEAN : get_tx_stream("", <<>>, noclear)
    \/ GetTxStreamBind
    \/ AppIdle /\ \E id \in StreamerIds : drop_streamer(id)
    \/ \E c \in {0} :
        \/ ResetSend(c)
        \/ WaitWoken(c)
        \/ WaitTimeout(c)
        \/ GetSendBuffXport(c)
        \/ GetSendBuffSeq(c)
    \/ \E i \in {0} :
        \/ PirateLoopTop(i)
        \/ ResetRecv(i)
        \/ PirateProcess(i)
        \/ PirateNotify(i)

SpecReset == InitSession /\ [][NextReset]_vars

(* --- SpecRace: two application threads send on channel 0, each call --- *)
(* --- of get_send_buff starting at any time; the hardware acknowledges -- *)
NextRace ==
    \E c \in {0} :
        \/ \E t \in SendThreads :
              \/ ThreadCheck(t, c)
              \/ ThreadWaitReturn(t, c)
              \/ \E got \in BOOLEAN : ThreadXport(t, c, got)
              \/ ThreadSeqRead(t, c)
              \/ ThreadSeqWrite(t, c)
        \/ \E n \in acked_count[c] .. Len(seq_log[c]) : WrapAcknowledge(c, n)

SpecRace == Init /\ [][NextRace]_vars

(* --- SpecRates: one board; one thread opens and drops streamers while -- *)
(* --- another sets sample rates ----------------------------------------- *)
\* the channel lists of the stream calls of SpecRates
RateChannels == {<<>>, <<1>>}

NextRates ==
    \/ \E channels \in RateChannels :
           get_rx_stream("", channels, 1472)
    \/ GetRxStreamDsp
    \/ GetRxStreamBind
    \/ \E channels \in RateChannels :
           get_tx_stream("", channels, TRUE)
    \/ GetTxStreamBind
    \/ \E id \in StreamerIds : drop_streamer(id)
    \/ \E dir \in {"rx", "tx"}, mb \in DOMAIN mbc, dsp \in 0 .. NumTxDsp - 1,
          rate \in SampRates :
           update_samp_rate(dir, mb, dsp, rate)
    \/ UpdateSampRateLock
    \/ UpdateSampRateSet

SpecRates == InitSession /\ [][NextRates]_vars

(* --- SpecEngine: one board from io_init to the end of ~io_impl; the ---- *)
(* --- pirate tasks take frames while the application opens, replaces ---- *)
(* --- and drops streamers ----------------------------------------------- *)
\* a flow control update on the task's own stream, or a timeout
EngineRecv(i) ==
    \E b \in (IF hw_sent < MaxLiveFrames
              THEN {NullRecvBuff,
                    Frame(OwnSid(i), "PACKET_TYPE_CONTEXT", TRUE, TRUE, hw_sent,
                          0, htonx(1))}
              ELSE {NullRecvBuff}) :
        get_recv_buff(i, b)

\* the stream calls of SpecEngine leave the channel list to its default
EngineChannels == {<<>>}

NextEngine ==
    \/ \E i \in Chans :
        \/ PirateLoopTop(i)
        \/ EngineRecv(i)
        \/ PirateProcess(i)
        \/ PirateNotify(i)
    \/ /\ io_impl_pc = "alive"
       /\ \E channels \in EngineChannels : get_rx_stream("", channels, 1472)
    \/ io_impl_pc = "alive" /\ GetRxStreamDsp
    \/ io_impl_pc = "alive" /\ GetRxStreamBind
    \/ /\ io_impl_pc = "alive"
       /\ \E channels \in EngineChannels, noclear \in BOOLEAN :
              get_tx_stream("", channels, noclear)
    \/ io_impl_pc = "alive" /\ GetTxStreamBind
    \/ io_impl_pc = "alive" /\ \E id \in StreamerIds : drop_streamer(id)
    \/ stream_returned /\ io_impl_dtor
    \/ task_interrupt
    \/ task_join
    \/ io_impl_release

SpecEngine == InitSession /\ [][NextEngine]_vars

(* ======================= properties of the engine ===================== *)
\* sequence numbers issued and not covered by the last acknowledgement
Outstanding(c) == seq_type(last_seq_out[c] - last_seq_ack[c])

\* C1: with one sender going through get_send_buff and acknowledgements that
\* name issued sequence numbers in order, the number of outstanding sequence
\* numbers never exceeds the window, and it is below the window whenever the
\* sender is about to take a sequence number.
C1_WindowBound ==
    \A c \in Chans :
        /\ Outstanding(c) <= MaxSeqsOut
        /\ send_pc[c] = "seq" => Outstanding(c) < MaxSeqsOut

\* the window is full across the wrap of the counter, and the sender blocks
\* in the wait
C1_Witness ==
    /\ Outstanding(0) = MaxSeqsOut
    /\ last_ack_arg[0] > last_seq_out[0]
    /\ send_pc[0] = "wait"

\* C2: after any sequence of get_curr_seq_out, update_fc_condition and clear,
\* ready() is false exactly when (calls since clear - last acknowledged
\* argument, 0 if none) modulo the word size is at least the window.
C2_ReadyIff ==
    \A c \in Chans :
        LET sent == Len(seq_log[c])
            ack == IF last_ack_arg[c] = -1 THEN 0 ELSE last_ack_arg[c]
        IN  (~ready(c)) <=> ((sent - ack) % SeqModulus >= MaxSeqsOut)

\* the window is closed across the wrap: more calls than the word holds, and
\* the acknowledged number is numerically above the wrapped counter
C2_Witness ==
    /\ ~ready(0)
    /\ Len(seq_log[0]) > SeqModulus
    /\ last_ack_arg[0] > last_seq_out[0]

\* C5: the values returned by get_curr_seq_out are 0, 1, 2, ... modulo the
\* word size since construction or clear, and the next value to be returned
\* is the number of calls so far, whatever has been acknowledged.
C5_SeqIncreasing ==
    \A c \in Chans :
        /\ \A k \in 1 .. Len(seq_log[c]) : seq_log[c][k] = (k - 1) % SeqModulus
        /\ last_seq_out[c] = Len(seq_log[c]) % SeqModulus

\* the value 0 has been returned again after the wrap, with an
\* acknowledgement applied in between
C5_Witness ==
    /\ Len(seq_log[0]) > SeqModulus
    /\ seq_log[0][Len(seq_log[0])] = 0
    /\ last_ack_arg[0] > 0

\* the step in which check_fc_condition returns on monitor c
FcReturns(c) == send_pc[c] # "checked" /\ send_pc'[c] = "checked"

\* C3 as stated: on a fresh or cleared monitor with window W, after W calls of
\* get_curr_seq_out and no acknowledgement the wait returns false, and after
\* a following update_fc_condition(0) it returns true.
C3_AckZeroOpens ==
    [][\A c \in Chans :
        (FcReturns(c) /\ Len(seq_log[c]) = MaxSeqsOut) =>
            /\ last_ack_arg[c] = -1 => fc_ret'[c] = "timeout"
            /\ last_ack_arg[c] = 0 => fc_ret'[c] = "ready"]_vars

\* C3 amended: after W calls and no acknowledgement the wait returns false;
\* update_fc_condition(0) leaves _last_seq_ack at 0 and the wait still
\* returns false; after update_fc_condition(s) with 1 <= s <= W it returns
\* true.
C3_AckOneOpens ==
    [][\A c \in Chans :
        (FcReturns(c) /\ Len(seq_log[c]) = MaxSeqsOut) =>
            /\ last_ack_arg[c] \in {-1, 0} => fc_ret'[c] = "timeout"
            /\ last_ack_arg[c] \in 1 .. MaxSeqsOut => fc_ret'[c] = "ready"]_vars

\* the wait has just returned true after W calls and update_fc_condition(1)
C3_Witness ==
    /\ send_pc[0] = "checked"
    /\ fc_ret[0] = "ready"
    /\ Len(seq_log[0]) = MaxSeqsOut
    /\ last_ack_arg[0] = 1

\* the calls a get_send_buff may have made so far, in order
SendLogs ==
    {<<>>,
     <<"check_fc_condition=false">>,
     <<"check_fc_condition=true", "tx_xport=null">>,
     <<"check_fc_condition=true", "tx_xport=buff">>,
     <<"check_fc_condition=true", "tx_xport=buff", "get_curr_seq_out">>}

\* C4: get_send_buff calls check_fc_condition, then the transport, then
\* get_curr_seq_out.  After a false check_fc_condition nothing else is
\* called and null is returned; after a null from the transport null is
\* returned and get_curr_seq_out is not called; a buffer is returned only
\* after exactly one get_curr_seq_out, whose value is in its first word; and
\* a sequence number is consumed in no other step.
C4_SendOrder ==
    /\ [](\A c \in Chans :
            /\ send_log[c] \in SendLogs
            /\ (send_pc[c] = "idle" /\ send_log[c] # <<>>) =>
                 IF send_buff[c].null
                 THEN send_log[c] \in
                        {<<"check_fc_condition=false">>,
                         <<"check_fc_condition=true", "tx_xport=null">>}
                 ELSE /\ send_log[c] = <<"check_fc_condition=true",
                                         "tx_xport=buff", "get_curr_seq_out">>
                      /\ send_buff[c].word0 = htonx(seq_log[c][Len(seq_log[c])]))
    /\ [][\A c \in Chans :
            (seq_log'[c] # seq_log[c] \/ last_seq_out'[c] # last_seq_out[c]) =>
                /\ Len(seq_log'[c]) = Len(seq_log[c]) + 1
                /\ send_log[c] = <<"check_fc_condition=true", "tx_xport=buff">>
                /\ send_log'[c] = Append(send_log[c], "get_curr_seq_out")]_vars

\* a call has returned null after the transport gave no buffer, with the
\* window open and sequence numbers issued before it
C4_Witness ==
    /\ send_pc[0] = "idle"
    /\ send_buff[0].null
    /\ send_log[0] = <<"check_fc_condition=true", "tx_xport=null">>
    /\ Len(seq_log[0]) = 2

\* the step in which pirate task i finishes processing a well-formed
\* non-data frame that arrived with the async stream id of its own tx dsp
ProcessesOwnFrame(i) ==
    /\ pirate_pc[i] = "process"
    /\ pirate_pc'[i] # "process"
    /\ pirate_buff[i].valid
    /\ pirate_buff[i].sid = OwnSid(i)
    /\ pirate_buff[i].packet_type # "PACKET_TYPE_DATA"

\* C6: when pirate task i processes a non-data frame of its own async stream
\* whose context code is 0 (flow control) and whose status word carries v,
\* _last_seq_ack of monitor i becomes v and async_msg_fifo is unchanged; and
\* in every reachable state no message in async_msg_fifo has event code 0.
C6_AckFrame ==
    /\ [](\A k \in 1 .. Len(async_msg_fifo) : async_msg_fifo[k].event_code # 0)
    /\ [][\A i \in Chans :
            (ProcessesOwnFrame(i) /\ pirate_buff[i].context_code = 0) =>
                /\ \A v \in 0 .. SeqModulus - 1 :
                       pirate_buff[i].fc_word32 = htonx(v) =>
                           last_seq_ack'[i] = v
                /\ async_msg_fifo' = async_msg_fifo
                /\ push_log' = push_log]_vars

\* task 1 has taken a flow control update with the largest credit while a
\* message was waiting in the fifo
C6_Witness ==
    /\ pirate_pc[1] = "notify"
    /\ last_seq_ack[1] = SeqModulus - 1
    /\ last_ack_arg[1] = SeqModulus - 1
    /\ Len(async_msg_fifo) = 1

\* C7: when pirate task i processes a non-data frame of its own async stream
\* whose context code e is not 0, exactly one message with event code e and
\* channel i is pushed at the back of async_msg_fifo, and update_fc_condition
\* is not called: _last_seq_ack and _last_seq_out of every monitor keep their
\* values.
C7_EventFrame ==
    [][\A i \in Chans :
        (ProcessesOwnFrame(i) /\ pirate_buff[i].context_code # 0) =>
            /\ Len(push_log') = Len(push_log) + 1
            /\ Len(async_msg_fifo) < AsyncFifoDepth =>
                   /\ Len(async_msg_fifo') = Len(async_msg_fifo) + 1
                   /\ SubSeq(async_msg_fifo', 1, Len(async_msg_fifo))
                          = async_msg_fifo
            /\ async_msg_fifo' # <<>>
            /\ async_msg_fifo'[Len(async_msg_fifo')].event_code
                   = pirate_buff[i].context_code
            /\ async_msg_fifo'[Len(async_msg_fifo')].channel = i
            /\ last_seq_ack' = last_seq_ack
            /\ last_seq_out' = last_seq_out
            /\ last_ack_arg' = last_ack_arg]_vars

\* both tasks have pushed an underflow report, task 1 first
C7_Witness ==
    /\ Len(async_msg_fifo) = 2
    /\ async_msg_fifo[1].channel = 1
    /\ async_msg_fifo[1].event_code = 2
    /\ async_msg_fifo[2].channel = 0
    /\ async_msg_fifo[2].event_code = 2
    /\ \A i \in Chans : last_ack_arg[i] = -1

\* C8: pirate task i acts on a frame only if the frame carries the async
\* stream id of its own tx dsp and is not a data packet; processing any other
\* frame, one with the other tx dsp's async stream id included, changes
\* neither monitor i nor async_msg_fifo.
C8_OwnStreamOnly ==
    [][\A i \in Chans :
        (/\ pirate_pc[i] = "process"
         /\ pirate_pc'[i] # "process"
         /\ ~(/\ pirate_buff[i].valid
              /\ pirate_buff[i].sid = OwnSid(i)
              /\ pirate_buff[i].packet_type # "PACKET_TYPE_DATA")) =>
            /\ last_seq_ack'[i] = last_seq_ack[i]
            /\ last_seq_out'[i] = last_seq_out[i]
            /\ async_msg_fifo' = async_msg_fifo]_vars

\* the step in which some pirate task pushes a message
Pushes == Len(push_log') > Len(push_log)

\* C9: under every interleaving of pushes by the pirate tasks and of
\* recv_async_msg, async_msg_fifo never holds more than its depth of 100
\* messages, and a push never fails or blocks: a task that has a frame to
\* process can always take its step, and the pushed message is at the back
\* of the fifo when the push returns.
C9_FifoBounded ==
    /\ [](Len(async_msg_fifo) <= AsyncFifoDepth)
    /\ [](\A i \in Chans : pirate_pc[i] = "process" => ENABLED PirateProcess(i))
    /\ [][Pushes =>
            /\ async_msg_fifo' # <<>>
            /\ async_msg_fifo'[Len(async_msg_fifo')] = push_log'[Len(push_log')]
         ]_vars

\* the fifo is full after more pushes than its depth, the latest by task 1,
\* and after a message has been popped
C9_Witness ==
    /\ Len(async_msg_fifo) = AsyncFifoDepth
    /\ Len(push_log) > AsyncFifoDepth
    /\ async_found
    /\ async_metadata # NoMetadata
    /\ async_msg_fifo[AsyncFifoDepth].channel = 1

\* the last n messages pushed, oldest first
LastPushed(n) == SubSeq(push_log, Len(push_log) - n + 1, Len(push_log))

\* C10: a push into a full fifo of depth N removes exactly the oldest message
\* and appends the new one, so that after K pushes and no pop the fifo holds
\* exactly the last min(K, N) messages pushed, in push order; the newest
\* message is never the one discarded.
C10_DropOldest ==
    /\ [](async_metadata = NoMetadata =>
            async_msg_fifo =
                LastPushed(IF Len(push_log) < AsyncFifoDepth
                           THEN Len(push_log) ELSE AsyncFifoDepth))
    /\ [][(Pushes /\ Len(async_msg_fifo) = AsyncFifoDepth) =>
            async_msg_fifo' =
                Append(Tail(async_msg_fifo), push_log'[Len(push_log')])]_vars

\* more messages than the depth have been pushed and none popped: the oldest
\* ones are gone and the newest, pushed by task 1, is at the back
C10_Witness ==
    /\ Len(push_log) = AsyncFifoDepth + ExtraPushes
    /\ async_metadata = NoMetadata
    /\ Len(async_msg_fifo) = AsyncFifoDepth
    /\ async_msg_fifo[1].time_spec = ExtraPushes
    /\ async_msg_fifo[AsyncFifoDepth].channel = 1
    /\ async_msg_fifo[AsyncFifoDepth].time_spec = AsyncFifoDepth + ExtraPushes - 1

\* the step in which a blocked recv_async_msg returns
PopReturns == pop_pc = "wait" /\ pop_pc' = "idle"

\* C11: a recv_async_msg blocked on an empty fifo always returns; it returns
\* false, with async_metadata untouched, when no message has been pushed by
\* the time the wait ends, and it returns true with the first message pushed
\* when there is one.
C11_PopWaitReturns ==
    /\ (pop_pc = "wait") ~> (pop_pc = "idle")
    /\ [][PopReturns =>
            IF async_msg_fifo = <<>>
            THEN /\ ~async_found'
                 /\ async_metadata' = async_metadata
                 /\ async_msg_fifo' = <<>>
            ELSE /\ async_found'
                 /\ async_metadata' = Head(async_msg_fifo)
                 /\ async_msg_fifo' = Tail(async_msg_fifo)]_vars

\* a call that found the fifo empty has returned false after an earlier call
\* had returned a message
C11_Witness ==
    /\ pop_pc = "idle"
    /\ ~async_found
    /\ async_metadata # NoMetadata
    /\ async_msg_fifo = <<>>
    /\ Len(push_log) = 1

\* the thread of channel c is inside the timed wait of check_fc_condition
InWait(c) == send_pc[c] \in {"wait", "woken"}

\* C12: no wakeup is lost.  Whenever the sender of channel c sleeps in the
\* wait while ready() holds, the notify_one of the update_fc_condition that
\* opened the window is still to come; and a wait that ends while ready()
\* holds returns true.
C12_NoLostWakeup ==
    /\ [](\A c \in Chans :
            (send_pc[c] = "wait" /\ ready(c)) => pirate_pc[c] = "notify")
    /\ [][\A c \in Chans :
            (InWait(c) /\ FcReturns(c) /\ ready(c)) => fc_ret'[c] = "ready"]_vars

\* the blocked sender has been woken by the notification of an update that
\* opened the window by one
C12_Witness ==
    /\ send_pc[0] = "woken"
    /\ pirate_pc[0] = "top"
    /\ Len(seq_log[0]) = MaxSeqsOut
    /\ last_ack_arg[0] = 1
    /\ ready(0)

\* C13: check_fc_condition returns true only if ready() holds when it
\* returns, and false only from the timed wait with ready() false; a waiter
\* woken while ready() is false (a spurious wakeup, or an update that does
\* not open the window) goes back to waiting or times out, and never returns
\* true.
C13_RecheckPredicate ==
    [][\A c \in Chans :
        /\ FcReturns(c) =>
            /\ fc_ret'[c] = "ready" => ready(c)'
            /\ fc_ret'[c] = "timeout" => (InWait(c) /\ ~ready(c)')
            /\ fc_ret'[c] \in {"ready", "timeout"}
        /\ (send_pc[c] = "woken" /\ ~ready(c) /\ send_pc'[c] # "woken") =>
            \/ send_pc'[c] = "wait"
            \/ send_pc'[c] = "checked" /\ fc_ret'[c] = "timeout"]_vars

\* the wait has returned false after an update that left the window closed
C13_Witness ==
    /\ send_pc[0] = "checked"
    /\ fc_ret[0] = "timeout"
    /\ last_ack_arg[0] = 0
    /\ Len(seq_log[0]) = MaxSeqsOut
    /\ pirate_pc[0] \in {"top", "recv"}

\* C14: when the interruption of a thread blocked in check_fc_condition has
\* been requested, the wait is aborted: it returns false, and does not go on
\* to return true for an update that arrives later.
C14_InterruptAbortsWait ==
    [][\A c \in Chans :
        (InWait(c) /\ send_interruption_requested[c] /\ FcReturns(c)) =>
            fc_ret'[c] = "timeout"]_vars

\* C15: once the interruption of pirate task i has been requested the task
\* leaves its loop, every receive call returning; and after the request it
\* makes at most one more receive call: when it is past the receive it never
\* comes back to it.
C15_TaskExits ==
    /\ \A i \in Chans : interruption_requested[i] ~> (pirate_pc[i] = "done")
    /\ [][\A i \in Chans :
            (interruption_requested[i] /\ pirate_pc[i] # "recv") =>
                pirate_pc'[i] # "recv"]_vars

\* both tasks have been interrupted and joined after the hardware had sent
\* all its frames
C15_Witness ==
    /\ \A i \in Chans : interruption_requested[i] /\ pirate_pc[i] = "done"
    /\ pirate_tasks = <<>>
    /\ hw_sent = MaxLiveFrames

\* C16: a frame returned by a receive call after the interruption of the
\* task was requested is not acted on: processing it changes no flow control
\* monitor and not the fifo.
C16_LateFrameIgnored ==
    [][\A i \in Chans :
        (late_frame[i] /\ pirate_pc[i] = "process" /\ pirate_pc'[i] # "process")
            => /\ last_seq_ack' = last_seq_ack
               /\ last_seq_out' = last_seq_out
               /\ async_msg_fifo' = async_msg_fifo]_vars

\* the tasks already destroyed by pirate_tasks.clear()
Destroyed == {i \in Chans : \A k \in 1 .. Len(pirate_tasks) : pirate_tasks[k] # i}

\* C17: the destructor of io_impl interrupts every pirate task and waits
\* for its loop to return before the members are released: a task is
\* interrupted only by the destructor, a task taken off pirate_tasks has
\* left its loop, and once the fifo, the monitors and the transports are
\* released no task is running.
C17_JoinBeforeRelease ==
    /\ \A i \in Chans : interruption_requested[i] => io_impl_pc # "alive"
    /\ \A i \in Destroyed : pirate_pc[i] = "done"
    /\ io_impl_pc = "released" => \A i \in Chans : pirate_pc[i] = "done"

\* the members have been released after both tasks had taken frames; the
\* last frame was pushed as a message
C17_Witness ==
    /\ io_impl_pc = "released"
    /\ hw_sent = MaxLiveFrames
    /\ async_msg_fifo # <<>>
    /\ async_msg_fifo[Len(async_msg_fifo)].time_spec = MaxLiveFrames - 1

\* C18: a pirate task leaves its loop only at the loop condition and only
\* when its interruption has been requested.  A null buffer, a frame the
\* unpacker rejects, an unrecognized frame and a reported event all lead
\* back to the loop condition, and from there, without a request, to the
\* next receive.
C18_OnlyInterruptionEnds ==
    /\ [](\A i \in Chans : pirate_pc[i] = "done" => interruption_requested[i])
    /\ \A i \in Chans :
          (pirate_pc[i] = "process") ~> (pirate_pc[i] \in {"recv", "done"})
    /\ [][\A i \in Chans :
            pirate_pc'[i] # pirate_pc[i] =>
                pirate_pc'[i] \in
                    CASE pirate_pc[i] = "top" ->
                           IF interruption_requested[i] THEN {"done"}
                                                        ELSE {"recv"}
                      [] pirate_pc[i] = "recv" ->
                           IF pirate_buff'[i].null THEN {"top"} ELSE {"process"}
                      [] pirate_pc[i] = "process" -> {"top", "notify"}
                      [] pirate_pc[i] = "notify" -> {"top"}
                      [] OTHER -> {}]_vars

\* the hardware has sent all its frames, one of them was a reported event
\* and none a flow control update, and both tasks are at their next receive
C18_Witness ==
    /\ hw_sent = MaxLiveFrames
    /\ Len(push_log) = 1
    /\ \A i \in Chans : /\ last_ack_arg[i] = -1
                        /\ pirate_pc[i] = "recv"
                        /\ ~interruption_requested[i]

\* the frame in the loop's buffer is one the loop does not recognize
Unrecognized(b) ==
    \/ ~b.valid
    \/ b.sid \notin TxAsyncSids
    \/ b.packet_type = "PACKET_TYPE_DATA"

\* C19: a null buffer, a frame the unpacker rejects, a frame whose stream id
\* is not a tx async id and a data packet are dropped: receiving and
\* processing them changes no counter of any flow control monitor and not the
\* fifo.
C19_DroppedFrames ==
    [][\A i \in Chans :
        (\/ pirate_pc[i] = "recv" /\ pirate_pc'[i] = "top"
         \/ /\ pirate_pc[i] = "process"
            /\ pirate_pc'[i] # "process"
            /\ Unrecognized(pirate_buff[i])) =>
            /\ last_seq_ack' = last_seq_ack
            /\ last_seq_out' = last_seq_out
            /\ last_ack_arg' = last_ack_arg
            /\ async_msg_fifo' = async_msg_fifo
            /\ push_log' = push_log
            /\ pirate_pc'[i] = "top"]_vars

\* every frame the hardware sent has been received and processed, and none
\* has left a trace
C19_Witness ==
    /\ hw_sent = MaxFrames
    /\ push_log = <<>>
    /\ \A i \in Chans : /\ last_ack_arg[i] = -1
                        /\ pirate_pc[i] = "top"
                        /\ pirate_buff[i].null

\* the occupancy of board b in the direction of the last streamer
OccOf(b) == IF my_streamer.dir = "rx" THEN mbc[b].rx_chan_occ
                                      ELSE mbc[b].tx_chan_occ

\* occ_1 + ... + occ_b
RECURSIVE OccUpTo(_)
OccUpTo(b) == IF b = 0 THEN 0 ELSE OccUpTo(b - 1) + OccOf(b)

\* C20: in a streamer made by get_rx_stream or get_tx_stream, a channel index
\* c below the total occupancy of the boards is bound to the first board b
\* with c < occ_1 + ... + occ_b and to dsp c - (occ_1 + ... + occ_(b-1)) of
\* that board.
C20_ChannelResolution ==
    \A k \in 1 .. Len(my_streamer.xport_chan) :
        LET c == my_streamer.channels[k]
            r == my_streamer.xport_chan[k]
        IN  c < OccUpTo(Len(mbc)) =>
                /\ r.bound
                /\ r.mb \in 1 .. Len(mbc)
                /\ c < OccUpTo(r.mb)
                /\ \A b \in 1 .. (r.mb - 1) : ~(c < OccUpTo(b))
                /\ r.dsp = c - OccUpTo(r.mb - 1)

\* two boards with two tx channels each: channel 2 of a tx streamer is dsp 0
\* of the second board
C20_Witness ==
    /\ Len(mbc) = 2
    /\ mbc[1].tx_chan_occ = 2
    /\ mbc[2].tx_chan_occ = 2
    /\ my_streamer.dir = "tx"
    /\ my_streamer.channels = <<2>>
    /\ my_streamer.xport_chan = <<[bound |-> TRUE, mb |-> 2, dsp |-> 0, abs |-> 2]>>

\* C21: a streamer handed back by get_rx_stream or get_tx_stream has a
\* get_buff callback bound for every channel it was asked for; a channel
\* index at or beyond the total occupancy is refused instead.
C21_OutOfRangeRejected ==
    stream_returned =>
        \A chan_i \in 1 .. Len(my_streamer.xport_chan) :
            my_streamer.xport_chan[chan_i].bound

\* C25: update_fc_condition stores its argument whatever _last_seq_ack was:
\* after an update, and until the next clear, _last_seq_ack is the argument of
\* the last update, also when that argument is below the value it replaced.
C25_LastValueWins ==
    /\ [](\A c \in Chans :
            last_ack_arg[c] # -1 => last_seq_ack[c] = last_ack_arg[c])
    /\ [][\A c \in Chans :
            last_ack_arg'[c] # last_ack_arg[c] /\ last_ack_arg'[c] # -1 =>
                last_seq_ack'[c] = last_ack_arg'[c]]_vars

\* monitor 0 held an acknowledgement above 1 and then took an update naming
\* 1: _last_seq_ack went back to 1
C25_Witness ==
    /\ ack_decreased[0]
    /\ last_ack_arg[0] = 1
    /\ last_seq_ack[0] = 1
    /\ pirate_pc[0] = "notify"

\* C30: a flow control frame too short to hold the credit word is dropped:
\* processing it leaves _last_seq_ack of every monitor as it was and calls
\* no update_fc_condition.
C30_ShortAckDropped ==
    [][\A i \in Chans :
        (/\ ProcessesOwnFrame(i)
         /\ pirate_buff[i].context_code = 0
         /\ pirate_buff[i].num_payload_words32 < 2)
            => /\ last_seq_ack' = last_seq_ack
               /\ last_ack_arg' = last_ack_arg]_vars

\* C29: every call of get_send_buff returns, whether or not an
\* acknowledgement arrives and whether or not the transport has a buffer; a
\* call whose flow control wait timed out, or whose transport gave nothing,
\* returns no buffer and takes no sequence number.
C29_SendBuffReturns ==
    /\ \A c \in Chans : (send_pc[c] # "idle") ~> (send_pc[c] = "idle")
    /\ [][\A c \in Chans :
            (send_pc[c] = "checked" /\ send_pc'[c] = "idle") =>
                /\ send_buff'[c].null
                /\ last_seq_out'[c] = last_seq_out[c]]_vars

\* a call made with the window closed has come back empty-handed after its
\* timeout, all acknowledgements of the hardware used up
C29_Witness ==
    /\ send_pc[0] = "idle"
    /\ send_log[0] = <<"check_fc_condition=false">>
    /\ send_buff[0].null
    /\ Outstanding(0) = MaxSeqsOut
    /\ hw_sent = MaxAcks

\* the binding appended by a step of the loop over args.channels
BindsChannel ==
    Len(my_streamer'.xport_chan) = Len(my_streamer.xport_chan) + 1

LastBound == my_streamer'.xport_chan[Len(my_streamer'.xport_chan)]

\* C27: an rx streamer's spp is the frame size less the header, divided by
\* the item size and rounded down; every channel it has bound, at any moment
\* of the call and after it, lies on a dsp whose samples-per-packet is that
\* spp, and the dsp holds the value already when the channel is bound.
C27_SppProgrammed ==
    /\ [](my_streamer.dir = "rx" =>
            LET item == get_bytes_per_item(my_streamer.otw_format)
                bpp == my_streamer.recv_frame_size - RxHdrSize
            IN  /\ my_streamer.spp * item <= bpp
                /\ bpp < (my_streamer.spp + 1) * item
                /\ \A chan_i \in 1 .. Len(my_streamer.xport_chan) :
                       LET slot == my_streamer.xport_chan[chan_i]
                       IN  slot.bound =>
                               nsamps_per_packet[slot.mb][slot.dsp] =
                                   my_streamer.spp)
    /\ [][(my_streamer.dir = "rx" /\ BindsChannel /\ LastBound.bound) =>
            nsamps_per_packet[LastBound.mb][LastBound.dsp] = my_streamer.spp]_vars

\* an sc8 streamer on both channels of a board whose frames hold three items
\* was returned with both dsps programmed for three samples a packet
C27_Witness ==
    /\ app_streamers[1].dir = "rx"
    /\ app_streamers[1].otw_format = "sc8"
    /\ app_streamers[1].channels = <<1, 0>>
    /\ app_streamers[1].spp = 3
    /\ Len(mbc) = 1
    /\ nsamps_per_packet[1] = [dsp \in 0 .. NumRxDsp - 1 |-> 3]
    /\ stream_returned

\* a stream call ends with an exception
Throws == stream_error' # "none" /\ stream_error = "none"

\* C22: get_tx_stream with a wire format other than sc16 throws and changes
\* nothing: no monitor, no streamer, no entry of the streamer tables; and
\* every tx streamer there is has the sc16 wire format, asked for or by
\* default.
C22_BadFormatRejected ==
    /\ [](\A id \in StreamerIds :
            app_streamers[id].dir = "tx" => app_streamers[id].otw_format = "sc16")
    /\ [](my_streamer.dir = "tx" => my_streamer.otw_format = "sc16")
    /\ [][Throws =>
            /\ stream_error' = "value_error"
            /\ UNCHANGED <<monVars, histVars, my_streamer, app_streamers,
                           rx_streamers, tx_streamers, nsamps_per_packet>>]_vars

\* the call was refused while a streamer was bound to dsp 0, whose monitor
\* had issued a sequence number and taken its acknowledgement
C22_Witness ==
    /\ stream_error = "value_error"
    /\ tx_streamers[1][0] # 0
    /\ last_seq_out[0] = 1
    /\ last_seq_ack[0] = 1
    /\ stream_returned

\* streamer id, held by the application, has get_send_buff of monitor c bound
BoundTo(id, c) ==
    /\ app_streamers[id].dir = "tx"
    /\ \E chan_i \in 1 .. Len(app_streamers[id].xport_chan) :
           /\ app_streamers[id].xport_chan[chan_i].bound
           /\ app_streamers[id].xport_chan[chan_i].abs = c

\* C23: opening a tx streamer leaves the flow control counters used by the
\* streamers made earlier, and still held, as they are.
C23_EarlierStreamerUntouched ==
    [][\A id \in StreamerIds, c \in Chans :
        (/\ BoundTo(id, c)
         /\ my_streamer.dir = "tx"
         /\ my_streamer.id # id
         /\ BindsChannel)
            => /\ last_seq_out'[c] = last_seq_out[c]
               /\ last_seq_ack'[c] = last_seq_ack[c]]_vars

C24_UpdateOnLiveStreamer ==
    /\ [][\A dir \in {"rx", "tx"}, mb \in DOMAIN mbc, dsp \in 0 .. NumTxDsp - 1,
             rate \in SampRates :
            (update_samp_rate(dir, mb, dsp, rate)
             /\ streamers_of(dir)[mb][dsp] = 0) => UNCHANGED vars]_vars
    /\ [][\A id \in StreamerIds :
            (app_streamers[id].dir # "none" /\ app_streamers'[id].dir # "none"
             /\ app_streamers'[id].samp_rate # app_streamers[id].samp_rate)
                => upd.pc = "locked" /\ upd.ptr = id]_vars
    /\ [][(upd.pc = "locked" /\ upd'.pc = "idle" /\ upd.ptr # 0)
            => Alive(upd.ptr)]_vars

\* a stream call takes a step, or the application drops a streamer
StreamStep ==
    \/ my_streamer' # my_streamer
    \/ app_streamers' # app_streamers
    \/ stream_error' # stream_error

\* C28: until ~io_impl is entered, each tx dsp transport of each board has
\* exactly one pirate task, which has not been asked to stop and has not
\* left its loop; and no step of a stream call, nor the dropping of a
\* streamer, changes the task list, asks a task to stop or ends one.
C28_OneTaskPerTransport ==
    /\ [](io_impl_pc = "alive" =>
            /\ Len(pirate_tasks) = NumTxDsp * Len(mbc)
            /\ \A i \in 0 .. (NumTxDsp * Len(mbc) - 1) :
                /\ Cardinality({k \in DOMAIN pirate_tasks :
                                   pirate_tasks[k] = i}) = 1
                /\ ~interruption_requested[i]
                /\ pirate_pc[i] # "done")
    /\ [][StreamStep =>
            /\ UNCHANGED <<pirate_tasks, interruption_requested>>
            /\ \A i \in DOMAIN pirate_pc :
                   (pirate_pc'[i] = "done") = (pirate_pc[i] = "done")]_vars

\* streamer 1 was opened on tx dsp 0, replaced there by streamer 2 and
\* dropped, and pirate task 0 is at work on a frame
C28_Witness ==
    /\ io_impl_pc = "alive"
    /\ app_streamers[1].dir = "none"
    /\ app_streamers[2].dir = "tx"
    /\ tx_streamers[1][0] = 2
    /\ pirate_pc[0] = "process"
    /\ pirate_tasks = <<0, 1>>

C32_AgreesAcrossWrap ==
    \A c \in {0} :
        LET issued == Len(seq_log[c])
            acked == acked_count[c]
        IN  issued - acked < SeqModulus =>
                (ready(c) <=> (issued - acked < MaxSeqsOut))

\* _last_seq_out has wrapped to 1 and _last_seq_ack has not: fewer than
\* _max_seqs_out numbers are outstanding and the monitor is ready
C32_Witness ==
    /\ Len(seq_log[0]) = SeqModulus + 1
    /\ last_seq_out[0] = 1
    /\ acked_count[0] = SeqModulus - 1
    /\ last_seq_ack[0] = SeqModulus - 1
    /\ fc_ret[0] = "ready"

\* the step in which recv_async_msg takes a message out of the fifo
Pops == async_found' /\ Len(async_msg_fifo') < Len(async_msg_fifo)

\* position in push order of a message that has been pushed (each message
\* carries the time stamp of its frame, and no two frames share one)
PushIndex(metadata) ==
    CHOOSE k \in 1 .. Len(push_log) : push_log[k] = metadata

\* C33: with both pirate tasks pushing, what the fifo holds is at all times
\* the run of the latest messages pushed, in push order, each once; a pop
\* takes the earliest pushed of them, so that messages are popped in push
\* order; the messages of one task are pushed in the order the task got their
\* frames; and a push removes a message only from a full fifo, the one that
\* has AsyncFifoDepth newer messages behind it.
C33_InsertionOrder ==
    /\ [](async_msg_fifo = LastPushed(Len(async_msg_fifo)))
    /\ [][Pushes =>
            \A j \in 1 .. Len(push_log) :
                push_log[j].channel = push_log'[Len(push_log')].channel
                    => push_log[j].time_spec < push_log'[Len(push_log')].time_spec
         ]_vars
    /\ [][Pops =>
            /\ async_metadata' = Head(async_msg_fifo)
            /\ async_metadata # NoMetadata =>
                   PushIndex(async_metadata') > PushIndex(async_metadata)]_vars
    /\ [][(Pushes /\ Len(async_msg_fifo) < AsyncFifoDepth) =>
            async_msg_fifo' = Append(async_msg_fifo, push_log'[Len(push_log')])
         ]_vars

\* task 1 has pushed a message between two of task 0, and the application
\* has popped the message of task 1 and has that of task 0 still to pop
C33_Witness ==
    /\ Len(push_log) > AsyncFifoDepth
    /\ push_log[Len(push_log)].channel = 0
    /\ push_log[Len(push_log) - 1].channel = 1
    /\ push_log[Len(push_log) - 2].channel = 0
    /\ async_found
    /\ async_metadata = push_log[Len(push_log) - 1]
    /\ async_msg_fifo = <<push_log[Len(push_log)]>>

\* the step in which get_send_buff hands a buffer out on channel c
HandsOut(c) == send_pc[c] # "idle" /\ send_pc'[c] = "idle" /\ ~send_buff'[c].null

\* C34: the n-th buffer handed out on a channel since the monitor was made
\* or cleared carries the sequence word n - 1 modulo the word size, and a
\* sequence number is consumed only by a buffer that is handed out: calls
\* that return null, on the flow control timeout or on the transport's,
\* leave no gap and no repetition.
C34_ConsecutiveOnWire ==
    /\ [][\A c \in Chans :
            HandsOut(c) =>
                /\ ntohx(send_buff'[c].word0) = Len(seq_log[c]) % SeqModulus
                /\ Len(seq_log'[c]) = Len(seq_log[c]) + 1]_vars
    /\ [][\A c \in Chans :
            ~HandsOut(c) =>
                /\ last_seq_out'[c] = last_seq_out[c]
                /\ seq_log'[c] = seq_log[c]]_vars

\* a buffer with the word after the wrap has been handed out, and between it
\* and the buffer before it one call timed out on flow control and one came
\* back from the transport with nothing
C34_Witness ==
    /\ send_pc[0] = "idle"
    /\ ~send_buff[0].null
    /\ Len(seq_log[0]) = SeqModulus + 1
    /\ ntohx(send_buff[0].word0) = 0
    /\ null_returns[0].between = {"flow control", "transport"}

\* C35: there is a monitor for the index of every pirate task; and a channel
\* of a tx streamer resolved to dsp d of board b has get_send_buff bound
\* with index 2(b-1)+d (boards counted from 1), at which tx_xports holds the
\* transport of (b, d), and which is the index of the one pirate task that
\* reads that transport, so the task updates the monitor the sender waits on.
C35_IndicesConsistent ==
    LET crew == spawn_pirates(Len(mbc))
    IN  /\ DOMAIN last_seq_out = 0 .. (Len(tx_xports) - 1)
        /\ Len(pirate_tasks) = Len(crew)
        /\ \A k \in DOMAIN pirate_tasks :
              /\ pirate_tasks[k] = crew[k].index
              /\ pirate_tasks[k] \in DOMAIN last_seq_out
        /\ my_streamer.dir = "tx" =>
              \A chan_i \in 1 .. Len(my_streamer.xport_chan) :
                  LET r == my_streamer.xport_chan[chan_i]
                      xport == [mb |-> r.mb, dsp |-> r.dsp]
                  IN  r.bound =>
                        /\ r.abs = NumTxDsp * (r.mb - 1) + r.dsp
                        /\ tx_xports[r.abs + 1] = xport
                        /\ \A k \in DOMAIN crew :
                              (crew[k].err_xport = xport)
                                  <=> (crew[k].index = r.abs)

\* two boards with one tx channel each: channel 1 is dsp 0 of the second
\* board, whose monitor, transport and task have index 2
C35_Witness ==
    /\ Len(mbc) = 2
    /\ mbc[1].tx_chan_occ = 1
    /\ mbc[2].tx_chan_occ = 1
    /\ my_streamer.dir = "tx"
    /\ my_streamer.channels = <<1>>
    /\ stream_returned
    /\ my_streamer.xport_chan[1].abs = 2
    /\ pirate_tasks[3] = 2

\* C36: a monitor on which nothing has been issued since it was cleared (or
\* made) is ready, whatever acknowledgements the pirate task has applied to
\* it in the meantime.
C36_ReadyAfterReset ==
    \A c \in Chans : seq_log[c] = <<>> => ready(c)

\* numbers issued by monitor c since it was cleared and not acknowledged
Unacknowledged(c) == Len(seq_log[c]) - acked_count[c]

\* the k-th number issued by monitor c is k-1 modulo 2^SeqBits: none twice,
\* none left out
InSequence(c) ==
    \A k \in 1 .. Len(seq_log[c]) : seq_log[c][k] = seq_type(k - 1)

\* C37 as stated: with two threads in get_send_buff of one channel at any
\* time, the numbers written into the buffers are in sequence and at most
\* _max_seqs_out of them are unacknowledged.
C37_ConcurrentSenders ==
    \A c \in Chans : InSequence(c) /\ Unacknowledged(c) <= MaxSeqsOut

\* C37 amended: as long as no call of get_send_buff on the channel has
\* started while another thread was inside one, the numbers written into
\* the two threads' buffers are in sequence and at most _max_seqs_out of
\* them are unacknowledged.
C37_SerialisedSenders ==
    \A c \in Chans :
        ~calls_overlapped[c] => InSequence(c) /\ Unacknowledged(c) <= MaxSeqsOut

\* the two threads have taken turns up to a full window: each holds a
\* buffer, the two words are one apart
C37_Witness ==
    /\ ~calls_overlapped[0]
    /\ \A t \in SendThreads : ~send_threads[t].buff.null
    /\ ntohx(send_threads[2].buff.word0)
           = seq_type(ntohx(send_threads[1].buff.word0) + 1)
    /\ Len(seq_log[0]) = MaxRaceCalls
    /\ Unacknowledged(0) = MaxSeqsOut

\* C38: the message pushed last has has_time_spec set exactly when the
\* header of the frame it was made from has both has_tsi and has_tsf.
C38_TimeSpecNeedsBoth ==
    push_log # <<>> =>
        (push_log[Len(push_log)].has_time_spec
            <=> (pushed_buff.has_tsi /\ pushed_buff.has_tsf))

\* a frame with the integer seconds alone has been reported after another
\* frame, both without a time spec, and both messages are in the fifo
C38_Witness ==
    /\ Len(push_log) = 2
    /\ pushed_buff.has_tsi
    /\ ~pushed_buff.has_tsf
    /\ ~push_log[2].has_time_spec
    /\ ~push_log[1].has_time_spec
    /\ async_msg_fifo = push_log

====
